---- MODULE Spec2Model ----
(***************************************************************************)
(* Circuit Mapping: the data repository (deduplication and version merge), *)
(* the node index, the hierarchical layout, the expansion hook and the     *)
(* FlowWidget handlers, as a state machine.                                *)
(*                                                                         *)
(* Data conventions                                                        *)
(*   - a JS array is a sequence; a JS Map that is only looked up by key is *)
(*     a function with a finite domain; a Map whose values() order is used *)
(*     is the sequence of its values in insertion order;                   *)
(*   - createdAt (an ISO-8601 string compared with localeCompare) is the   *)
(*     natural number of its rank; versionNumber (a dot-separated string)  *)
(*     is the sequence of its numeric segments;                            *)
(*   - metadata/description travel with the entity object exactly as       *)
(*     title does and are not modelled separately.                         *)
(***************************************************************************)
EXTENDS Integers, Sequences, FiniteSets, TLC

VARIABLES
    phase,            \* "input" | "built" | "mounted" | "api" | "search" | "layout"
    inRecords,        \* the records array handed to createDataRepository
    inDocuments,      \* the documents array handed to createDataRepository, as given
    heapDocuments,    \* the caller's document objects as the program leaves them
    repository,       \* DataRepository
    nodeIndex,        \* NodeIndex
    nodes,            \* visibleNodes (React state `nodes`)
    edges,            \* visibleEdges (React state `edges`)
    expandedState,    \* ExpandedState: node id -> bool, partial
    layoutDirection,  \* FlowWidget prop layoutDirection
    last,             \* the last handler that ran: [op, id, outcome]
    steps,            \* the number of handlers that have run
    searched,         \* the last SearchService.search call, with what it returned
    scheduled         \* setNodes/setEdges calls of handlers that ran, not yet rendered

vars == <<phase, inRecords, inDocuments, heapDocuments, repository, nodeIndex, nodes, edges,
          expandedState, layoutDirection, last, steps, searched, scheduled>>

----------------------------------------------------------------------------
(* Bounds of the model *)

MaxRecords == 3

MaxDocuments == 3

ChainLen == 4

MaxOps == 4

----------------------------------------------------------------------------
(* Generic helpers *)

EmptyMap == [k \in {} |-> 0]

MapSet(m, k, v) == [x \in (DOMAIN m) \cup {k} |-> IF x = k THEN v ELSE m[x]]

Range(s) == {s[i] : i \in DOMAIN s}

\* the value of a field that an object does not have, or of an argument that was
\* not passed; as a Map key it is a key like any other
undefined == "undefined"

BoundedSeq(S, n) == UNION {[1..k -> S] : k \in 0..n}

FilterSeq(s, Keep(_)) ==
    LET RECURSIVE Go(_)
        Go(i) == IF i > Len(s) THEN <<>>
                 ELSE (IF Keep(s[i]) THEN <<s[i]>> ELSE <<>>) \o Go(i + 1)
    IN Go(1)

\* Array.prototype.sort with comparator Cmp: stable; Cmp(a, b) > 0 puts b first.
StableSort(s, Cmp(_, _)) ==
    LET RECURSIVE Insert(_, _)
        Insert(sorted, x) ==
            IF sorted = <<>> THEN <<x>>
            ELSE IF Cmp(Head(sorted), x) > 0 THEN <<x>> \o sorted
            ELSE <<Head(sorted)>> \o Insert(Tail(sorted), x)
        RECURSIVE Sort(_)
        Sort(n) == IF n = 0 THEN <<>> ELSE Insert(Sort(n - 1), s[n])
    IN Sort(Len(s))

----------------------------------------------------------------------------
(* dedup.ts: node ids *)

createRecordNodeId(recordKey) == "record-" \o recordKey

createDocumentNodeId(documentKey) == "document-" \o documentKey

createDocumentVersionNodeId(versionId) == "version-" \o versionId

----------------------------------------------------------------------------
(* dedup.ts: deduplication and version merging *)

\* Map.has on a Map kept as the sequence of its values
SeenRecord(seen, recordKey) == \E i \in DOMAIN seen : seen[i].recordKey = recordKey

deduplicateRecordsLastWins(records) ==
    LET RECURSIVE Go(_, _)
        Go(i, seen) ==
            IF i > Len(records) THEN seen
            ELSE IF ~SeenRecord(seen, records[i].recordKey)
                 THEN Go(i + 1, Append(seen, records[i]))
                 ELSE Go(i + 1, [j \in DOMAIN seen |->
                                   IF seen[j].recordKey = records[i].recordKey
                                   THEN records[i] ELSE seen[j]])
    IN Go(1, <<>>)

deduplicateRecords(records) ==
    LET RECURSIVE Go(_, _)
        Go(i, seen) ==
            IF i > Len(records) THEN seen
            ELSE IF ~SeenRecord(seen, records[i].recordKey)
                 THEN Go(i + 1, Append(seen, records[i]))
                 ELSE Go(i + 1, seen)
    IN Go(1, <<>>)

CompareCreatedAtDesc(a, b) ==
    IF b.createdAt > a.createdAt THEN 1
    ELSE IF b.createdAt < a.createdAt THEN -1 ELSE 0

SeenVersion(merged, versionId) == \E i \in DOMAIN merged : merged[i].versionId = versionId

mergeDocumentVersionsNoDedup(versions1, versions2) ==
    StableSort(versions1 \o versions2, CompareCreatedAtDesc)

mergeDocumentVersions(versions1, versions2) ==
    LET all == versions1 \o versions2
        RECURSIVE Go(_, _)
        Go(i, merged) ==
            IF i > Len(all) THEN merged
            ELSE IF ~SeenVersion(merged, all[i].versionId)
                 THEN Go(i + 1, Append(merged, all[i]))
                 ELSE Go(i + 1, merged)
    IN StableSort(Go(1, <<>>), CompareCreatedAtDesc)

SeenDocument(seen, documentKey) == \E i \in DOMAIN seen : seen[i].documentKey = documentKey

\* `seen` holds the input objects themselves: the assignment to existing.versions
\* writes into the first occurrence of the key in the caller's array.  The result is
\* the returned array together with the caller's array as the call leaves it.
deduplicateDocuments(documents) ==
    LET RECURSIVE Go(_, _)
        Go(i, seen) ==
            IF i > Len(documents) THEN seen
            ELSE IF ~SeenDocument(seen, documents[i].documentKey)
                 THEN Go(i + 1, Append(seen, documents[i]))
                 ELSE Go(i + 1, [j \in DOMAIN seen |->
                        IF seen[j].documentKey = documents[i].documentKey
                        THEN [seen[j] EXCEPT !.versions =
                                mergeDocumentVersions(seen[j].versions, documents[i].versions)]
                        ELSE seen[j]])
        result == Go(1, <<>>)
        FirstIndex(k) == CHOOSE i \in DOMAIN documents :
                            /\ documents[i].documentKey = k
                            /\ \A j \in 1..(i - 1) : documents[j].documentKey # k
        Canonical(k) == CHOOSE j \in DOMAIN result : result[j].documentKey = k
    IN [result |-> result,
        input  |-> [i \in DOMAIN documents |->
                      IF FirstIndex(documents[i].documentKey) = i
                      THEN result[Canonical(documents[i].documentKey)]
                      ELSE documents[i]]]

EmptyRepository ==
    [records |-> EmptyMap, documents |-> EmptyMap, allRecords |-> <<>>, allDocuments |-> <<>>]

\* new Map(entries): a later entry with the same key would overwrite an earlier one
MapOfSeq(s, Key(_)) ==
    [k \in {Key(s[i]) : i \in DOMAIN s} |->
        s[CHOOSE i \in DOMAIN s : Key(s[i]) = k /\ \A j \in DOMAIN s : Key(s[j]) = k => j <= i]]

RecordKeyOf(r) == r.recordKey

DocumentKeyOf(d) == d.documentKey

createDataRepository(records, documents) ==
    LET dedupedRecords == deduplicateRecords(records)
        dedupedDocuments == deduplicateDocuments(documents).result
    IN [records      |-> MapOfSeq(dedupedRecords, RecordKeyOf),
        documents    |-> MapOfSeq(dedupedDocuments, DocumentKeyOf),
        allRecords   |-> dedupedRecords,
        allDocuments |-> dedupedDocuments]

----------------------------------------------------------------------------
(* dedup.ts: the repository's lookups *)

HasRecord(repo, recordKey) == recordKey \in DOMAIN repo.records

getRecord(repo, recordKey) == repo.records[recordKey]

HasDocument(repo, documentKey) == documentKey \in DOMAIN repo.documents

getDocument(repo, documentKey) == repo.documents[documentKey]

\* the linked records that exist, in link order (one per link, repeats kept)
collectLinkedRecords(record, repo) ==
    LET present == FilterSeq(record.linkedRecords, LAMBDA l : HasRecord(repo, l.recordKey))
    IN [i \in DOMAIN present |-> getRecord(repo, present[i].recordKey)]

collectLinkedDocuments(record, repo) ==
    LET present == FilterSeq(record.linkedDocuments, LAMBDA l : HasDocument(repo, l.documentKey))
    IN [i \in DOMAIN present |-> getDocument(repo, present[i].documentKey)]

----------------------------------------------------------------------------
(* dedup.ts: version ordering and child counts *)

\* parts[i] || 0 : a missing segment counts as 0
Segment(parts, i) == IF i <= Len(parts) THEN parts[i] ELSE 0

CompareVersionNumberDesc(a, b) ==
    LET n == IF Len(a.versionNumber) > Len(b.versionNumber)
             THEN Len(a.versionNumber) ELSE Len(b.versionNumber)
        differ == {i \in 1..n : Segment(a.versionNumber, i) # Segment(b.versionNumber, i)}
        first == CHOOSE i \in differ : \A j \in differ : i <= j
    IN IF differ = {} THEN 0
       ELSE Segment(b.versionNumber, first) - Segment(a.versionNumber, first)

sortVersions(versions) == StableSort(versions, CompareVersionNumberDesc)

calculateRecordChildCountPerLink(record) ==
    Len(record.linkedDocuments) + Len(record.linkedRecords)

calculateRecordChildCount(record) ==
    Cardinality({record.linkedDocuments[i].documentKey : i \in DOMAIN record.linkedDocuments})
    + Cardinality({record.linkedRecords[i].recordKey : i \in DOMAIN record.linkedRecords})

calculateDocumentChildCount(document) ==
    Cardinality({document.linkedDocuments[i].documentKey : i \in DOMAIN document.linkedDocuments})
    + Cardinality({document.linkedRecords[i].recordKey : i \in DOMAIN document.linkedRecords})
    + Len(document.versions)

----------------------------------------------------------------------------
(* dedup.ts: the node index.  getOrCreate* return the node and the index as the *)
(* call leaves it.                                                              *)

createNodeIndex ==
    [recordsByKey |-> EmptyMap, documentsByKey |-> EmptyMap,
     versionsById |-> EmptyMap, nodeById |-> EmptyMap]

\* indexRecordNode without its nodeById line
indexRecordNodeByKeyOnly(index, recordKey, node) ==
    [index EXCEPT !.recordsByKey = MapSet(@, recordKey, node)]

indexRecordNode(index, recordKey, node) ==
    [index EXCEPT !.recordsByKey = MapSet(@, recordKey, node),
                  !.nodeById = MapSet(@, node.id, node)]

indexDocumentNode(index, documentKey, node) ==
    [index EXCEPT !.documentsByKey = MapSet(@, documentKey, node),
                  !.nodeById = MapSet(@, node.id, node)]

indexDocumentVersionNode(index, versionId, node) ==
    [index EXCEPT !.versionsById = MapSet(@, versionId, node),
                  !.nodeById = MapSet(@, node.id, node)]

getOrCreateRecordNodeReseeded(index, record, position) ==
    LET node == [id       |-> createRecordNodeId(record.recordKey),
                 type     |-> "record",
                 position |-> position,
                 data     |-> [type       |-> "record",
                               recordKey  |-> record.recordKey,
                               title      |-> IF record.recordKey \in DOMAIN index.recordsByKey
                                              THEN index.recordsByKey[record.recordKey].data.title
                                              ELSE record.title,
                               isExpanded |-> FALSE,
                               childCount |-> IF record.recordKey \in DOMAIN index.recordsByKey
                                              THEN index.recordsByKey[record.recordKey].data.childCount
                                              ELSE calculateRecordChildCount(record)]]
    IN [node |-> node, index |-> indexRecordNode(index, record.recordKey, node)]

getOrCreateRecordNode(index, record, position) ==
    IF record.recordKey \in DOMAIN index.recordsByKey
    THEN [node |-> index.recordsByKey[record.recordKey], index |-> index]
    ELSE LET node == [id       |-> createRecordNodeId(record.recordKey),
                      type     |-> "record",
                      position |-> position,
                      data     |-> [type       |-> "record",
                                    recordKey  |-> record.recordKey,
                                    title      |-> record.title,
                                    isExpanded |-> FALSE,
                                    childCount |-> calculateRecordChildCount(record)]]
         IN [node |-> node, index |-> indexRecordNode(index, record.recordKey, node)]

getOrCreateDocumentNode(index, document, position) ==
    IF document.documentKey \in DOMAIN index.documentsByKey
    THEN [node |-> index.documentsByKey[document.documentKey], index |-> index]
    ELSE LET node == [id       |-> createDocumentNodeId(document.documentKey),
                      type     |-> "document",
                      position |-> position,
                      data     |-> [type        |-> "document",
                                    documentKey |-> document.documentKey,
                                    title       |-> document.title,
                                    versions    |-> sortVersions(document.versions),
                                    isExpanded  |-> FALSE,
                                    childCount  |-> calculateDocumentChildCount(document)]]
         IN [node |-> node, index |-> indexDocumentNode(index, document.documentKey, node)]

\* a version node has no isExpanded field until an expansion writes one
getOrCreateDocumentVersionNode(index, documentKey, version, position) ==
    IF version.versionId \in DOMAIN index.versionsById
    THEN [node |-> index.versionsById[version.versionId], index |-> index]
    ELSE LET node == [id       |-> createDocumentVersionNodeId(version.versionId),
                      type     |-> "documentVersion",
                      position |-> position,
                      data     |-> [type          |-> "documentVersion",
                                    documentKey   |-> documentKey,
                                    versionId     |-> version.versionId,
                                    versionNumber |-> version.versionNumber,
                                    childCount    |-> 0]]
         IN [node |-> node, index |-> indexDocumentVersionNode(index, version.versionId, node)]

----------------------------------------------------------------------------
(* dedup.ts: edges.  type, animated and style are the same for every edge. *)

createEdgeId(sourceId, targetId, linkType) == sourceId \o "->" \o targetId \o ":" \o linkType

createEdge(sourceId, targetId, linkType) ==
    [id       |-> createEdgeId(sourceId, targetId, linkType),
     source   |-> sourceId,
     target   |-> targetId,
     data     |-> [linkType |-> linkType]]

isEdgeUniqueById(es, sourceId, targetId, linkType) ==
    ~\E i \in DOMAIN es :
        /\ es[i].source = sourceId
        /\ es[i].target = targetId
        /\ es[i].id = linkType

isEdgeUnique(es, sourceId, targetId, linkType) ==
    ~\E i \in DOMAIN es :
        /\ es[i].source = sourceId
        /\ es[i].target = targetId
        /\ es[i].data.linkType = linkType

----------------------------------------------------------------------------
(* layout.ts: LayoutEngine as calculateHierarchicalLayout configures it *)

DEFAULT_NODE_WIDTH == 200

DEFAULT_NODE_HEIGHT == 60

HierarchicalLevelGap == 320

HierarchicalNodeGap == 220

\* adjacency.get(id): the targets of id's edges, in edge order
buildAdjacencyList(ns, es, id) ==
    LET out == FilterSeq(es, LAMBDA e : e.source = id)
    IN [i \in DOMAIN out |-> out[i].target]

\* depth-first from the root, guarded by `visited` (the domain of `levels`);
\* nodes the walk does not reach get level 0
calculateLevels(ns, es, rootNodeId) ==
    LET RECURSIVE Dfs(_, _, _)
        RECURSIVE DfsChildren(_, _, _, _)
        Dfs(nodeId, level, levels) ==
            IF nodeId \in DOMAIN levels THEN levels
            ELSE DfsChildren(buildAdjacencyList(ns, es, nodeId), 1, level + 1,
                             MapSet(levels, nodeId, level))
        DfsChildren(children, i, level, levels) ==
            IF i > Len(children) THEN levels
            ELSE DfsChildren(children, i + 1, level, Dfs(children[i], level, levels))
        \* rootNodeId || nodes[0]?.id
        startNode == IF rootNodeId \notin {undefined, ""} THEN rootNodeId
                     ELSE IF Len(ns) = 0 THEN undefined ELSE ns[1].id
        reached == IF startNode = undefined THEN EmptyMap ELSE Dfs(startNode, 0, EmptyMap)
    IN [id \in (DOMAIN reached) \cup {ns[i].id : i \in DOMAIN ns} |->
            IF id \in DOMAIN reached THEN reached[id] ELSE 0]

\* the keys of levelGroups, sorted ascending (LR, TB) or descending (RL, BT)
SortedLevels(keys, descending) ==
    LET RECURSIVE Go(_)
        Go(rest) ==
            IF rest = {} THEN <<>>
            ELSE LET k == IF descending
                          THEN CHOOSE x \in rest : \A y \in rest : y <= x
                          ELSE CHOOSE x \in rest : \A y \in rest : x <= y
                 IN <<k>> \o Go(rest \ {k})
    IN Go(keys)

positionNodes(ns, levels, direction) ==
    LET horizontal == direction \in {"LR", "RL"}
        descending == direction \in {"RL", "BT"}
        start == IF descending THEN -1000 ELSE 0
        sortedLevels == SortedLevels({levels[ns[i].id] : i \in DOMAIN ns}, descending)
        nodeWidth == DEFAULT_NODE_WIDTH
        nodeHeight == DEFAULT_NODE_HEIGHT
        levelStep == IF horizontal THEN nodeWidth + HierarchicalLevelGap
                     ELSE nodeHeight + HierarchicalLevelGap
        crossStep == IF horizontal THEN nodeHeight + HierarchicalNodeGap
                     ELSE nodeWidth + HierarchicalNodeGap
        Group(k) ==
            LET nodesAtLevel == FilterSeq(ns, LAMBDA n : levels[n.id] = sortedLevels[k])
                main == start + (k - 1) * levelStep
                cross0 == -((Len(nodesAtLevel) * crossStep) \div 2)
            IN [j \in DOMAIN nodesAtLevel |->
                  [nodesAtLevel[j] EXCEPT !.position =
                      IF horizontal
                      THEN [x |-> main, y |-> cross0 + (j - 1) * crossStep]
                      ELSE [x |-> cross0 + (j - 1) * crossStep, y |-> main]]]
        RECURSIVE Concat(_)
        Concat(k) == IF k > Len(sortedLevels) THEN <<>> ELSE Group(k) \o Concat(k + 1)
    IN Concat(1)

\* LayoutEngine.calculateLayout; rootNodeId = undefined is a call without a root
calculateHierarchicalLayout(ns, es, rootNodeId, direction) ==
    IF Len(ns) = 0 THEN <<>>
    ELSE positionNodes(ns, calculateLevels(ns, es, rootNodeId), direction)

----------------------------------------------------------------------------
(* layout.ts: calculateForceDirectedLayout and calculateCircularLayout.  Their   *)
(* coordinates are floating-point numbers; the model keeps what decides which    *)
(* nodes come back and rounds or abstracts the numbers.                          *)

\* positions.get(edge.source)! / positions.get(edge.target)! of an id that no
\* node has is undefined, and reading .x of it throws TypeError
ReadsMissingPosition(ns, es) ==
    \E j \in DOMAIN es :
        \/ \A i \in DOMAIN ns : ns[i].id # es[j].source
        \/ \A i \in DOMAIN ns : ns[i].id # es[j].target

\* `settled` is the position per node id that the Math.random() start and the
\* force iterations end in; the function returns the nodes in input order
calculateForceDirectedLayout(ns, es, iterations, settled) ==
    IF Len(ns) = 0 THEN [threw |-> FALSE, nodes |-> <<>>]
    ELSE IF iterations > 0 /\ ReadsMissingPosition(ns, es)
    THEN [threw |-> TRUE, nodes |-> <<>>]
    ELSE [threw |-> FALSE,
          nodes |-> [i \in DOMAIN ns |-> [ns[i] EXCEPT !.position = settled[ns[i].id]]]]

\* <<cos, sin>> of 2 * PI * index / n in thousandths, for the circles of up to
\* four nodes
UnitCircle(index, n) ==
    IF index = 0 THEN <<1000, 0>>
    ELSE IF n = 2 THEN <<-1000, 0>>
    ELSE IF n = 3 THEN (IF index = 1 THEN <<-500, 866>> ELSE <<-500, -866>>)
    ELSE (IF index = 1 THEN <<0, 1000>> ELSE IF index = 2 THEN <<-1000, 0>> ELSE <<0, -1000>>)

\* radius * cos(angle), radius * sin(angle), rounded to whole units
calculateCircularLayout(ns) ==
    LET radius == IF Len(ns) * 20 > 100 THEN Len(ns) * 20 ELSE 100
    IN [i \in DOMAIN ns |->
          [ns[i] EXCEPT !.position =
              [x |-> (radius * UnitCircle(i - 1, Len(ns))[1] + 500) \div 1000,
               y |-> (radius * UnitCircle(i - 1, Len(ns))[2] + 500) \div 1000]]]

----------------------------------------------------------------------------
(* useExpand.ts: shared steps of the expansion loops.  The loops thread           *)
(* acc = [nodes, edges, index, y]: newNodes, newEdges, the node index, yOffset.   *)

FoldLeft(Op(_, _), acc0, s) ==
    LET RECURSIVE Go(_, _)
        Go(i, acc) == IF i > Len(s) THEN acc ELSE Go(i + 1, Op(acc, s[i]))
    IN Go(1, acc0)

HasNode(ns, id) == \E i \in DOMAIN ns : ns[i].id = id

FindNode(ns, id) == ns[CHOOSE i \in DOMAIN ns : ns[i].id = id /\ \A j \in 1..(i - 1) : ns[j].id # id]

PushAlways(ns, node) == Append(ns, node)

\* if (!newNodes.find((n) => n.id === childNode.id)) newNodes.push(childNode)
PushIfAbsent(ns, node) == IF HasNode(ns, node.id) THEN ns ELSE Append(ns, node)

\* if (isEdgeUnique(newEdges, ...)) newEdges.push(createEdge(...))
PushEdgeIfUnique(es, sourceId, targetId, linkType) ==
    IF isEdgeUnique(es, sourceId, targetId, linkType)
    THEN Append(es, createEdge(sourceId, targetId, linkType))
    ELSE es

\* (linkType || fallback): a missing link type is the empty string
LinkTypeOr(linkType, fallback) == IF linkType = "" THEN fallback ELSE linkType

\* one child: getOrCreate it at (x, acc.y), push it, push its edge, advance yOffset
AddChild(acc, made, nodeId, linkType, step) ==
    [nodes |-> PushIfAbsent(acc.nodes, made.node),
     edges |-> PushEdgeIfUnique(acc.edges, nodeId, made.node.id, linkType),
     index |-> made.index,
     y     |-> acc.y + step]

\* record.linkedRecords?.find((l) => l.recordKey === key)?.linkType
FirstRecordLinkType(links, recordKey) ==
    links[CHOOSE i \in DOMAIN links :
            links[i].recordKey = recordKey /\ \A j \in 1..(i - 1) : links[j].recordKey # recordKey].linkType

FirstDocumentLinkType(links, documentKey) ==
    links[CHOOSE i \in DOMAIN links :
            links[i].documentKey = documentKey /\ \A j \in 1..(i - 1) : links[j].documentKey # documentKey].linkType

\* the record branch, the same in expandNode and expandNodeHelper
ExpandRecordBranch(record, nodeId, baseXOffset, acc0, repo) ==
    LET withRecords ==
            FoldLeft(LAMBDA acc, linkedRecord :
                        AddChild(acc,
                                 getOrCreateRecordNode(acc.index, linkedRecord,
                                                       [x |-> baseXOffset, y |-> acc.y]),
                                 nodeId,
                                 LinkTypeOr(FirstRecordLinkType(record.linkedRecords,
                                                                linkedRecord.recordKey),
                                            "related_to"),
                                 120),
                     acc0, collectLinkedRecords(record, repo))
    IN FoldLeft(LAMBDA acc, linkedDoc :
                    AddChild(acc,
                             getOrCreateDocumentNode(acc.index, linkedDoc,
                                                     [x |-> baseXOffset, y |-> acc.y]),
                             nodeId,
                             LinkTypeOr(FirstDocumentLinkType(record.linkedDocuments,
                                                              linkedDoc.documentKey),
                                        "references"),
                             140),
                withRecords, collectLinkedDocuments(record, repo))

\* versions.forEach: one version node and one is_parent_of edge per version
AddVersions(acc0, document, nodeId, baseXOffset) ==
    FoldLeft(LAMBDA acc, version :
                AddChild(acc,
                         getOrCreateDocumentVersionNode(acc.index, document.documentKey, version,
                                                        [x |-> baseXOffset + 80, y |-> acc.y]),
                         nodeId, "is_parent_of", 90),
             acc0, document.versions)

\* document.linkedDocuments?.forEach, the same in both functions but for the fallback
AddLinkedDocuments(acc0, document, nodeId, baseXOffset, fallback, repo) ==
    FoldLeft(LAMBDA acc, linkDoc :
                IF HasDocument(repo, linkDoc.documentKey)
                THEN AddChild(acc,
                              getOrCreateDocumentNode(acc.index, getDocument(repo, linkDoc.documentKey),
                                                      [x |-> baseXOffset, y |-> acc.y]),
                              nodeId, LinkTypeOr(linkDoc.linkType, fallback), 140)
                ELSE acc,
             acc0, document.linkedDocuments)

MarkToggled(ns, nodeId) ==
    [i \in DOMAIN ns |->
        IF ns[i].id = nodeId
        THEN [ns[i] EXCEPT !.data = [f \in (DOMAIN ns[i].data) \cup {"isExpanded"} |->
                                        IF f = "isExpanded"
                                        THEN ~("isExpanded" \in DOMAIN ns[i].data /\ ns[i].data.isExpanded)
                                        ELSE ns[i].data[f]]]
        ELSE ns[i]]

\* newNodes.map(n => n.id === nodeId ? {...n, data: {...n.data, isExpanded: true}} : n)
MarkExpanded(ns, nodeId) ==
    [i \in DOMAIN ns |->
        IF ns[i].id = nodeId
        THEN [ns[i] EXCEPT !.data = [f \in (DOMAIN ns[i].data) \cup {"isExpanded"} |->
                                        IF f = "isExpanded" THEN TRUE ELSE ns[i].data[f]]]
        ELSE ns[i]]

----------------------------------------------------------------------------
(* useExpand.ts: expandNode of the hook.  Returns the nodes and edges it returns *)
(* and the node index as it leaves it.                                          *)

\* the document branch of expandNode: the version loop sits inside the
\* "linked record is new" branch of the linked-records loop
ExpandDocumentBranchOfHook(document, nodeId, baseXOffset, acc0, repo) ==
    LET withRecords ==
            FoldLeft(LAMBDA acc, linkRecord :
                        IF HasRecord(repo, linkRecord.recordKey)
                        THEN LET made == getOrCreateRecordNode(
                                            acc.index, getRecord(repo, linkRecord.recordKey),
                                            [x |-> baseXOffset, y |-> acc.y])
                                 pushed == [acc EXCEPT !.nodes = Append(@, made.node),
                                                       !.index = made.index]
                                 afterNode == IF ~HasNode(acc.nodes, made.node.id)
                                              THEN AddVersions(pushed, document, nodeId, baseXOffset)
                                              ELSE [acc EXCEPT !.index = made.index]
                             IN [afterNode EXCEPT
                                   !.edges = PushEdgeIfUnique(@, nodeId, made.node.id,
                                                 LinkTypeOr(linkRecord.linkType, "references")),
                                   !.y = @ + 120]
                        ELSE acc,
                     acc0, document.linkedRecords)
    IN AddLinkedDocuments(withRecords, document, nodeId, baseXOffset, "references", repo)

\* return { nodes: newNodes, edges: newEdges }: the copies, nothing added or marked
EarlyReturnMarked(nodeId, ns, es, index) ==
    [nodes |-> MarkExpanded(ns, nodeId), edges |-> es, index |-> index]

EarlyReturn(nodeId, ns, es, index) == [nodes |-> ns, edges |-> es, index |-> index]

expandNode(nodeId, ns, es, repo, index, direction) ==
    IF ~HasNode(ns, nodeId) THEN [nodes |-> ns, edges |-> es, index |-> index]
    ELSE
    LET sourceNode == FindNode(ns, nodeId)
        acc0 == [nodes |-> ns, edges |-> es, index |-> index, y |-> sourceNode.position.y - 100]
        baseXOffset == sourceNode.position.x + 250
        Finish(acc) ==
            [nodes |-> calculateHierarchicalLayout(MarkExpanded(acc.nodes, nodeId), acc.edges,
                                                   nodeId, direction),
             edges |-> acc.edges,
             index |-> acc.index]
        Unchanged == EarlyReturn(nodeId, ns, es, index)
    IN IF sourceNode.type = "record"
       THEN IF ~HasRecord(repo, sourceNode.data.recordKey) THEN Unchanged
            ELSE Finish(ExpandRecordBranch(getRecord(repo, sourceNode.data.recordKey),
                                           nodeId, baseXOffset, acc0, repo))
       ELSE IF sourceNode.type = "document"
       THEN IF ~HasDocument(repo, sourceNode.data.documentKey) THEN Unchanged
            ELSE Finish(ExpandDocumentBranchOfHook(getDocument(repo, sourceNode.data.documentKey),
                                                   nodeId, baseXOffset, acc0, repo))
       ELSE Finish(acc0)

----------------------------------------------------------------------------
(* useExpand.ts: expandNodeHelper, findAncestors, expandNodePath *)

ExpandDocumentBranchOfHelper(document, nodeId, baseXOffset, acc0, repo) ==
    LET withRecords ==
            FoldLeft(LAMBDA acc, linkRecord :
                        IF HasRecord(repo, linkRecord.recordKey)
                        THEN AddChild(acc,
                                      getOrCreateRecordNode(acc.index,
                                                            getRecord(repo, linkRecord.recordKey),
                                                            [x |-> baseXOffset, y |-> acc.y]),
                                      nodeId, LinkTypeOr(linkRecord.linkType, "is_parent_of"), 120)
                        ELSE acc,
                     acc0, document.linkedRecords)
        withDocuments ==
            AddLinkedDocuments(withRecords, document, nodeId, baseXOffset, "is_parent_of", repo)
    IN AddVersions(withDocuments, document, nodeId, baseXOffset)

expandNodeHelper(nodeId, ns, es, repo, index) ==
    IF ~HasNode(ns, nodeId) THEN [nodes |-> ns, edges |-> es, index |-> index]
    ELSE
    LET sourceNode == FindNode(ns, nodeId)
        acc0 == [nodes |-> ns, edges |-> es, index |-> index, y |-> sourceNode.position.y - 100]
        baseXOffset == sourceNode.position.x + 250
        Finish(acc) ==
            [nodes |-> calculateHierarchicalLayout(MarkExpanded(acc.nodes, nodeId), acc.edges,
                                                   nodeId, "TB"),
             edges |-> acc.edges,
             index |-> acc.index]
        Unchanged == EarlyReturn(nodeId, ns, es, index)
    IN IF sourceNode.type = "record"
       THEN IF ~HasRecord(repo, sourceNode.data.recordKey) THEN Unchanged
            ELSE Finish(ExpandRecordBranch(getRecord(repo, sourceNode.data.recordKey),
                                           nodeId, baseXOffset, acc0, repo))
       ELSE IF sourceNode.type = "document"
       THEN IF ~HasDocument(repo, sourceNode.data.documentKey) THEN Unchanged
            ELSE Finish(ExpandDocumentBranchOfHelper(getDocument(repo, sourceNode.data.documentKey),
                                                     nodeId, baseXOffset, acc0, repo))
       ELSE Finish(acc0)

\* backward walk over the edges; `ancestors` is a Set, read in insertion order
findAncestors(nodeId, es) ==
    LET RECURSIVE collectAncestors(_, _)
        RECURSIVE Each(_, _, _)
        collectAncestors(id, ancestors) ==
            Each(FilterSeq(es, LAMBDA e : e.target = id), 1, ancestors)
        Each(parentEdges, i, ancestors) ==
            IF i > Len(parentEdges) THEN ancestors
            ELSE IF \E k \in DOMAIN ancestors : ancestors[k] = parentEdges[i].source
                 THEN Each(parentEdges, i + 1, ancestors)
                 ELSE Each(parentEdges, i + 1,
                           collectAncestors(parentEdges[i].source,
                                            Append(ancestors, parentEdges[i].source)))
    IN collectAncestors(nodeId, <<>>)

expandNodePath(targetNodeId, ns, es, repo, index) ==
    FoldLeft(LAMBDA cur, ancestorId : expandNodeHelper(ancestorId, cur.nodes, cur.edges, repo, cur.index),
             [nodes |-> ns, edges |-> es, index |-> index],
             findAncestors(targetNodeId, es))

----------------------------------------------------------------------------
(* FlowWidget.tsx: getNodeDescendants.  The walk carries no visited set: it     *)
(* recurses once per outgoing edge.  A call chain longer than the number of     *)
(* edges has passed some node twice, so it is on a cycle and never returns: the  *)
(* engine ends it with RangeError (maximum call stack size exceeded).           *)

\* descendants.add(edge.source) in place of edge.target
getNodeDescendantsBySource(nodeId, es) ==
    [ids |-> {es[i].source : i \in {j \in DOMAIN es : es[j].source = nodeId}},
     overflow |-> FALSE]

getNodeDescendants(nodeId, es) ==
    LET RECURSIVE collect(_, _)
        collect(id, depth) ==
            IF depth > Len(es) THEN [ids |-> {}, overflow |-> TRUE]
            ELSE LET targets == {es[i].target : i \in {j \in DOMAIN es : es[j].source = id}}
                     subs == {collect(t, depth + 1) : t \in targets}
                 IN [ids      |-> targets \cup UNION {r.ids : r \in subs},
                     overflow |-> \E r \in subs : r.overflow]
    IN collect(nodeId, 0)

----------------------------------------------------------------------------
(* Input data: constructors and the data sets the widget is mounted on *)

RecordLink(recordKey, linkType) == [recordKey |-> recordKey, linkType |-> linkType]

DocumentLink(documentKey, linkType) == [documentKey |-> documentKey, linkType |-> linkType]

Record(recordKey, title, linkedRecords, linkedDocuments) ==
    [recordKey |-> recordKey, title |-> title,
     linkedRecords |-> linkedRecords, linkedDocuments |-> linkedDocuments]

Version(versionId, versionNumber, createdAt) ==
    [versionId |-> versionId, versionNumber |-> versionNumber, createdAt |-> createdAt]

Document(documentKey, title, versions, linkedRecords, linkedDocuments) ==
    [documentKey |-> documentKey, title |-> title, versions |-> versions,
     linkedRecords |-> linkedRecords, linkedDocuments |-> linkedDocuments]

\* r1 <-> r2: a record that links back to its parent; r3 stands alone
DataCycle ==
    [records |-> << Record("r1", "A", <<RecordLink("r2", "is_parent_of")>>, <<>>),
                    Record("r2", "B", <<RecordLink("r1", "is_parent_of")>>, <<>>),
                    Record("r3", "C", <<>>, <<>>) >>,
     documents |-> <<>>]

\* c1 -> c2 -> ... -> cN
DataChain(n) ==
    [records |-> [i \in 1..n |->
                    Record("c" \o ToString(i), "T",
                           IF i < n THEN <<RecordLink("c" \o ToString(i + 1), "is_parent_of")>>
                           ELSE <<>>,
                           <<>>)],
     documents |-> <<>>]

\* r1 -> r2 (twice, with two link types), r1 -> r3, r2 -> r3, a link to a key that
\* is not in the data, and r1 ingested a second time with another title
DataDiamond ==
    [records |-> << Record("r1", "A", <<RecordLink("r2", "is_parent_of"),
                                        RecordLink("r3", "references"),
                                        RecordLink("r2", "references"),
                                        RecordLink("r9", "is_parent_of")>>, <<>>),
                    Record("r2", "B", <<RecordLink("r3", "is_parent_of")>>, <<>>),
                    Record("r3", "C", <<>>, <<>>),
                    Record("r1", "A2", <<>>, <<>>) >>,
     documents |-> <<>>]

\* r1 -> d1 -> {r2, d2}; d1 ingested twice with version sets {v1} and {v1, v2};
\* d2 has no linked records; one link without a link type
DataDocuments ==
    [records |-> << Record("r1", "A", <<>>, <<DocumentLink("d1", "references"),
                                              DocumentLink("d9", "references")>>),
                    Record("r2", "B", <<>>, <<>>) >>,
     documents |-> << Document("d1", "D", <<Version("v1", <<1, 0>>, 1)>>,
                               <<RecordLink("r2", "")>>,
                               <<DocumentLink("d2", "is_parent_of")>>),
                      Document("d2", "E", <<Version("v3", <<2>>, 3)>>, <<>>, <<>>),
                      Document("d1", "D2", <<Version("v1", <<1, 0>>, 1),
                                             Version("v2", <<1, 2>>, 2)>>, <<>>, <<>>) >>]

DataSets == {DataCycle, DataChain(ChainLen), DataDiamond, DataDocuments}

----------------------------------------------------------------------------
(* FlowWidget.tsx: construction *)

NoCall == [op |-> "none", id |-> "", outcome |-> "none"]

NoSearch == [called |-> FALSE]

Call(op, id, outcome) == [op |-> op, id |-> id, outcome |-> outcome]

\* useState initialisers: the repository, an empty index, and the initial node
\* (a record with that key if there is one, else a document)
Mount(data, initialNodeId, direction) ==
    LET repo == createDataRepository(data.records, data.documents)
        made == IF initialNodeId # "" /\ HasRecord(repo, initialNodeId)
                THEN getOrCreateRecordNode(createNodeIndex, getRecord(repo, initialNodeId),
                                           [x |-> 0, y |-> 0])
                ELSE getOrCreateDocumentNode(createNodeIndex, getDocument(repo, initialNodeId),
                                             [x |-> 0, y |-> 0])
        found == initialNodeId # ""
                 /\ (HasRecord(repo, initialNodeId) \/ HasDocument(repo, initialNodeId))
    IN /\ phase = "mounted"
       /\ inRecords = data.records
       /\ inDocuments = data.documents
       /\ heapDocuments = deduplicateDocuments(data.documents).input
       /\ repository = repo
       /\ nodeIndex = (IF found THEN made.index ELSE createNodeIndex)
       /\ nodes = (IF found THEN <<made.node>> ELSE <<>>)
       /\ edges = <<>>
       /\ expandedState = EmptyMap
       /\ layoutDirection = direction
       /\ last = NoCall
       /\ steps = 0
       /\ searched = NoSearch
       /\ scheduled = <<>>

EntityKeys(data) ==
    {data.records[i].recordKey : i \in DOMAIN data.records}
    \cup {data.documents[i].documentKey : i \in DOMAIN data.documents}

Init ==
    \E data \in DataSets :
        \E initialNodeId \in EntityKeys(data) \cup {""} :
            \E direction \in {"LR", "TB"} :
                Mount(data, initialNodeId, direction)

----------------------------------------------------------------------------
(* FlowWidget.tsx: handlers *)

IsExpandedFlag(state, id) == IF id \in DOMAIN state THEN state[id] ELSE FALSE

\* the collapse branch with an edge filter that looks at the sources only
CollapseClickBySource(id) ==
    LET descendants == getNodeDescendants(id, edges)
        nodesToKeep == FilterSeq(nodes, LAMBDA n : n.id = id \/ n.id \notin descendants.ids)
        edgesToKeep == FilterSeq(edges, LAMBDA e : /\ e.source # id
                                                   /\ e.source \notin descendants.ids)
    IN IF descendants.overflow
       THEN /\ last' = Call("collapse", id, "RangeError")
            /\ UNCHANGED <<nodes, edges, expandedState, nodeIndex>>
       ELSE /\ nodes' = nodesToKeep
            /\ edges' = edgesToKeep
            /\ expandedState' = MapSet(expandedState, id, FALSE)
            /\ last' = Call("collapse", id, "ok")
            /\ UNCHANGED nodeIndex

\* the collapse branch of handleNodeClick
CollapseClick(id) ==
    LET descendants == getNodeDescendants(id, edges)
        nodesToKeep == FilterSeq(nodes, LAMBDA n : n.id = id \/ n.id \notin descendants.ids)
        edgesToKeep == FilterSeq(edges, LAMBDA e : /\ e.source # id
                                                   /\ e.source \notin descendants.ids
                                                   /\ e.target \notin descendants.ids)
    IN IF descendants.overflow
       THEN /\ last' = Call("collapse", id, "RangeError")
            /\ UNCHANGED <<nodes, edges, expandedState, nodeIndex>>
       ELSE /\ nodes' = nodesToKeep
            /\ edges' = edgesToKeep
            /\ expandedState' = MapSet(expandedState, id, FALSE)
            /\ last' = Call("collapse", id, "ok")
            /\ UNCHANGED nodeIndex

\* the expand branch of handleNodeClick
ExpandClick(id) ==
    LET r == expandNode(id, nodes, edges, repository, nodeIndex, layoutDirection)
    IN /\ nodes' = r.nodes
       /\ edges' = r.edges
       /\ nodeIndex' = r.index
       /\ expandedState' = MapSet(expandedState, id, TRUE)
       /\ last' = Call("expand", id, "ok")

handleNodeClick(id) ==
    /\ phase = "mounted"
    /\ steps < MaxOps
    /\ steps' = steps + 1
    /\ UNCHANGED <<searched, scheduled>>
    /\ HasNode(nodes, id)
    /\ IF IsExpandedFlag(expandedState, id) THEN CollapseClick(id) ELSE ExpandClick(id)
    /\ UNCHANGED <<phase, inRecords, inDocuments, heapDocuments, repository, layoutDirection>>

\* a search result names an entity of the repository and its kind
handleSearchSelect(key, type) ==
    /\ phase = "mounted"
    /\ steps < MaxOps
    /\ steps' = steps + 1
    /\ UNCHANGED <<searched, scheduled>>
    /\ IF type = "record" THEN HasRecord(repository, key) ELSE HasDocument(repository, key)
    /\ LET made == IF type = "record"
                   THEN getOrCreateRecordNode(nodeIndex, getRecord(repository, key),
                                              [x |-> 0, y |-> 0])
                   ELSE getOrCreateDocumentNode(nodeIndex, getDocument(repository, key),
                                                [x |-> 0, y |-> 0])
           existing == HasNode(nodes, made.node.id)
           path == expandNodePath(made.node.id, nodes, edges, repository, made.index)
       IN /\ nodes' = (IF Len(path.nodes) > Len(nodes) THEN path.nodes
                       ELSE IF existing THEN nodes ELSE Append(nodes, made.node))
          /\ edges' = (IF Len(path.edges) > Len(edges) THEN path.edges ELSE edges)
          /\ nodeIndex' = path.index
          /\ last' = Call("search", made.node.id, "ok")
    /\ UNCHANGED <<phase, inRecords, inDocuments, heapDocuments, repository, layoutDirection, expandedState>>

handleClearGraph ==
    /\ phase = "mounted"
    /\ steps < MaxOps
    /\ steps' = steps + 1
    /\ UNCHANGED <<searched, scheduled>>
    /\ nodes' = <<>>
    /\ edges' = <<>>
    /\ expandedState' = EmptyMap
    /\ last' = Call("clear", "", "ok")
    /\ UNCHANGED <<phase, inRecords, inDocuments, heapDocuments, repository, layoutDirection, nodeIndex>>

handleExpandAll ==
    /\ phase = "mounted"
    /\ steps < MaxOps
    /\ steps' = steps + 1
    /\ UNCHANGED <<searched, scheduled>>
    /\ LET rootNodes == FilterSeq(nodes, LAMBDA n : ~\E i \in DOMAIN edges : edges[i].target = n.id)
           todo == FilterSeq(rootNodes, LAMBDA n : ~IsExpandedFlag(expandedState, n.id))
           r == FoldLeft(LAMBDA cur, node :
                            expandNode(node.id, cur.nodes, cur.edges, repository, cur.index,
                                       layoutDirection),
                         [nodes |-> nodes, edges |-> edges, index |-> nodeIndex], todo)
       IN /\ nodes' = r.nodes
          /\ edges' = r.edges
          /\ nodeIndex' = r.index
          /\ expandedState' = FoldLeft(LAMBDA st, node : MapSet(st, node.id, TRUE),
                                       expandedState, todo)
          /\ last' = Call("expandAll", "", "ok")
    /\ UNCHANGED <<phase, inRecords, inDocuments, heapDocuments, repository, layoutDirection>>

NodeIds == {nodes[i].id : i \in DOMAIN nodes}

Next ==
    \/ \E id \in NodeIds : handleNodeClick(id)
    \/ \E key \in DOMAIN repository.records : handleSearchSelect(key, "record")
    \/ \E key \in DOMAIN repository.documents : handleSearchSelect(key, "document")
    \/ handleClearGraph
    \/ handleExpandAll

Spec == Init /\ [][Next]_vars

----------------------------------------------------------------------------
(* The repository alone: createDataRepository applied to bounded inputs *)

Titles == {"A", "B"}

RecordOptions ==
    {Record(k, t, l, <<>>) : k \in {"r1", "r2"}, t \in Titles,
                             l \in {<<>>, <<RecordLink("r2", "is_parent_of")>>}}

\* version lists with distinct versionIds, as the data model requires of a document;
\* in the fourth the newer version carries the smaller version number, in the
\* last one a version has no versionId
VersionLists ==
    { <<>>,
      <<Version("v1", <<1, 0>>, 1)>>,
      <<Version("v1", <<1, 0>>, 1), Version("v2", <<1, 1>>, 2)>>,
      <<Version("v2", <<2, 0>>, 5), Version("v3", <<1, 2>>, 6)>>,
      <<Version(undefined, <<3, 0>>, 7), Version("v1", <<1, 0>>, 1)>> }

\* the title and the links of an occurrence go together, so that an occurrence is
\* recognised by either
DocumentOptions ==
    {Document("d1", o[1], v, o[2], <<>>) :
        o \in {<<"A", <<>> >>, <<"B", <<RecordLink("r1", "references")>> >>},
        v \in VersionLists}
    \cup {Document("d2", "B", <<Version("v1", <<1, 0>>, 1)>>, <<>>, <<>>)}

InitRepo ==
    /\ phase = "input"
    /\ \/ inRecords \in BoundedSeq(RecordOptions, MaxRecords) /\ inDocuments = <<>>
       \/ inRecords = <<>> /\ inDocuments \in BoundedSeq(DocumentOptions, MaxDocuments)
    /\ heapDocuments = inDocuments
    /\ repository = EmptyRepository
    /\ nodeIndex = createNodeIndex
    /\ nodes = <<>>
    /\ edges = <<>>
    /\ expandedState = EmptyMap
    /\ layoutDirection = "TB"
    /\ last = NoCall
    /\ steps = 0
    /\ searched = NoSearch
    /\ scheduled = <<>>

Build ==
    /\ phase = "input"
    /\ phase' = "built"
    /\ repository' = createDataRepository(inRecords, inDocuments)
    /\ heapDocuments' = deduplicateDocuments(inDocuments).input
    /\ last' = Call("createDataRepository", "", "ok")
    /\ steps' = steps + 1
    /\ UNCHANGED <<searched, scheduled>>
    /\ UNCHANGED <<inRecords, inDocuments, nodeIndex, nodes, edges, expandedState,
                   layoutDirection>>

NextRepo == Build

SpecRepo == InitRepo /\ [][NextRepo]_vars

----------------------------------------------------------------------------
(* The expansion functions called directly: the caller owns (nodes, edges) and  *)
(* may pass any node id, and nodes whose entity the repository does not hold.   *)

GoneRecordNode ==
    getOrCreateRecordNode(createNodeIndex,
                          Record("gone", "G", <<RecordLink("r1", "is_parent_of")>>, <<>>),
                          [x |-> 0, y |-> 0]).node

GoneDocumentNode ==
    getOrCreateDocumentNode(createNodeIndex,
                            Document("gone", "G", <<Version("v1", <<1, 0>>, 1)>>,
                                     <<RecordLink("r1", "is_parent_of")>>, <<>>),
                            [x |-> 0, y |-> 0]).node

InitApi ==
    \E data \in DataSets :
        \E key \in EntityKeys(data) :
            \E extra \in {<<>>, <<GoneRecordNode>>, <<GoneDocumentNode>>} :
                LET repo == createDataRepository(data.records, data.documents)
                    made == IF HasRecord(repo, key)
                            THEN getOrCreateRecordNode(createNodeIndex, getRecord(repo, key),
                                                       [x |-> 0, y |-> 0])
                            ELSE getOrCreateDocumentNode(createNodeIndex, getDocument(repo, key),
                                                         [x |-> 0, y |-> 0])
                IN /\ phase = "api"
                   /\ inRecords = data.records
                   /\ inDocuments = data.documents
                   /\ heapDocuments = deduplicateDocuments(data.documents).input
                   /\ repository = repo
                   /\ nodeIndex = made.index
                   /\ nodes = <<made.node>> \o extra
                   /\ edges = <<>>
                   /\ expandedState = EmptyMap
                   /\ layoutDirection \in {"LR", "TB"}
                   /\ last = NoCall
                   /\ steps = 0
                   /\ searched = NoSearch
                   /\ scheduled = <<>>

\* what the call found, decided on the state it started from
ExpandOutcome(id) ==
    IF ~HasNode(nodes, id) THEN "unknownNode"
    ELSE LET n == FindNode(nodes, id)
         IN IF n.type = "record" /\ ~HasRecord(repository, n.data.recordKey) THEN "absentEntity"
            ELSE IF n.type = "document" /\ ~HasDocument(repository, n.data.documentKey)
                 THEN "absentEntity"
            ELSE "ok"

CallIds ==
    NodeIds
    \cup {createRecordNodeId(k) : k \in DOMAIN repository.records}
    \cup {createDocumentNodeId(k) : k \in DOMAIN repository.documents}
    \cup {"record-unknown"}

CallExpandNode(id) ==
    /\ phase = "api"
    /\ steps < MaxOps
    /\ steps' = steps + 1
    /\ UNCHANGED <<searched, scheduled>>
    /\ LET r == expandNode(id, nodes, edges, repository, nodeIndex, layoutDirection)
       IN /\ nodes' = r.nodes
          /\ edges' = r.edges
          /\ nodeIndex' = r.index
    /\ last' = Call("expandNode", id, ExpandOutcome(id))
    /\ UNCHANGED <<phase, inRecords, inDocuments, heapDocuments, repository, layoutDirection,
                   expandedState>>

CallExpandNodePath(id) ==
    /\ phase = "api"
    /\ steps < MaxOps
    /\ steps' = steps + 1
    /\ UNCHANGED <<searched, scheduled>>
    /\ LET r == expandNodePath(id, nodes, edges, repository, nodeIndex)
       IN /\ nodes' = r.nodes
          /\ edges' = r.edges
          /\ nodeIndex' = r.index
    /\ last' = Call("expandNodePath", id,
                    IF \E i \in DOMAIN edges : edges[i].target = id THEN "ok" ELSE "noAncestors")
    /\ UNCHANGED <<phase, inRecords, inDocuments, heapDocuments, repository, layoutDirection,
                   expandedState>>

NextApi ==
    \/ \E id \in CallIds : CallExpandNode(id)
    \/ \E id \in CallIds : CallExpandNodePath(id)

SpecApi == InitApi /\ [][NextApi]_vars

----------------------------------------------------------------------------
(* search.ts.  Here a string is the sequence of its characters, so that        *)
(* toLowerCase, trim, split, includes and startsWith are computed; a score is   *)
(* kept as the integer score * Scale, Scale being a multiple of 10 and of every *)
(* string length that occurs, so that 1.5, 0.8 and matches / length are exact.  *)

MaxStringLength == 13

UpperCase == <<"A", "B", "C", "D", "E", "F", "G", "H", "I", "J", "K", "L", "M",
               "N", "O", "P", "Q", "R", "S", "T", "U", "V", "W", "X", "Y", "Z">>

LowerCase == <<"a", "b", "c", "d", "e", "f", "g", "h", "i", "j", "k", "l", "m",
               "n", "o", "p", "q", "r", "s", "t", "u", "v", "w", "x", "y", "z">>

toLowerCase(s) ==
    [i \in DOMAIN s |->
        IF \E k \in DOMAIN UpperCase : UpperCase[k] = s[i]
        THEN LowerCase[CHOOSE k \in DOMAIN UpperCase : UpperCase[k] = s[i]]
        ELSE s[i]]

IsWhitespace(c) == c = " "

\* String.prototype.trim
trimIdentity(s) == s

trim(s) ==
    LET inked == {i \in DOMAIN s : ~IsWhitespace(s[i])}
    IN IF inked = {} THEN <<>>
       ELSE SubSeq(s, CHOOSE i \in inked : \A j \in inked : i <= j,
                      CHOOSE i \in inked : \A j \in inked : j <= i)

\* String.prototype.includes: the empty string is included in every string
includes(s, t) == \E i \in 0..(Len(s) - Len(t)) : SubSeq(s, i + 1, i + Len(t)) = t

startsWith(s, t) == Len(t) <= Len(s) /\ SubSeq(s, 1, Len(t)) = t

\* s.split(/\s+/): every run of whitespace separates two pieces, so whitespace at
\* the start or at the end of s leaves an empty piece there
splitOnWhitespace(s) ==
    LET RECURSIVE Go(_, _, _)
        Go(i, piece, out) ==
            IF i > Len(s) THEN Append(out, piece)
            ELSE IF IsWhitespace(s[i])
                 THEN IF i > 1 /\ IsWhitespace(s[i - 1]) THEN Go(i + 1, piece, out)
                      ELSE Go(i + 1, <<>>, Append(out, piece))
                 ELSE Go(i + 1, Append(piece, s[i]), out)
    IN Go(1, <<>>, <<>>)

Gcd(a, b) ==
    LET RECURSIVE Go(_, _)
        Go(x, y) == IF y = 0 THEN x ELSE Go(y, x % y)
    IN Go(a, b)

\* 10 * lcm(1 .. MaxStringLength)
Scale ==
    LET RECURSIVE Lcm(_, _)
        Lcm(n, acc) == IF n > MaxStringLength THEN acc
                       ELSE Lcm(n + 1, (acc * n) \div Gcd(acc, n))
    IN 10 * Lcm(1, 1)

\* calculateSimilarity, times Scale
calculateSimilarity(str1, str2) ==
    LET s1 == toLowerCase(str1)
        s2 == toLowerCase(str2)
        longer == IF Len(s1) > Len(s2) THEN s1 ELSE s2
        shorter == IF Len(s1) > Len(s2) THEN s2 ELSE s1
        matches == Cardinality({i \in DOMAIN shorter : includes(longer, <<shorter[i]>>)})
    IN IF s1 = s2 THEN Scale
       ELSE IF includes(s1, s2) \/ includes(s2, s1) THEN (8 * Scale) \div 10
       ELSE (matches * Scale) \div Len(longer)

\* SearchService.index as the sequence of its values; Map.set on an id that is
\* already there replaces the value where it stands
IndexSet(index, entry) ==
    IF \E i \in DOMAIN index : index[i].id = entry.id
    THEN [i \in DOMAIN index |-> IF index[i].id = entry.id THEN entry ELSE index[i]]
    ELSE Append(index, entry)

RecordIdPrefix == <<"r", "e", "c", "o", "r", "d", "-">>

DocumentIdPrefix == <<"d", "o", "c", "u", "m", "e", "n", "t", "-">>

buildIndex(repo) ==
    LET RECURSIVE Records(_, _)
        Records(i, index) ==
            IF i > Len(repo.allRecords) THEN index
            ELSE Records(i + 1,
                         IndexSet(index, [id       |-> RecordIdPrefix \o repo.allRecords[i].recordKey,
                                          type     |-> "record",
                                          key      |-> repo.allRecords[i].recordKey,
                                          title    |-> repo.allRecords[i].title,
                                          category |-> "records"]))
        RECURSIVE Documents(_, _)
        Documents(i, index) ==
            IF i > Len(repo.allDocuments) THEN index
            ELSE Documents(i + 1,
                           IndexSet(index, [id       |-> DocumentIdPrefix \o repo.allDocuments[i].documentKey,
                                            type     |-> "document",
                                            key      |-> repo.allDocuments[i].documentKey,
                                            title    |-> repo.allDocuments[i].title,
                                            category |-> "documents"]))
    IN Documents(1, Records(1, <<>>))

\* what one term adds to the score, times Scale
TermScore(titleLower, keyLower, term) ==
    (IF includes(titleLower, term)
     THEN (IF startsWith(titleLower, term) THEN 2 * Scale ELSE (15 * Scale) \div 10)
     ELSE 0)
    + (IF includes(keyLower, term) THEN Scale ELSE 0)
    + (IF calculateSimilarity(titleLower, term) * 10 > 6 * Scale
       THEN calculateSimilarity(titleLower, term) ELSE 0)

calculateScore(result, terms) ==
    LET titleLower == toLowerCase(result.title)
        keyLower == toLowerCase(result.key)
        RECURSIVE Sum(_)
        Sum(i) == IF i > Len(terms) THEN 0
                  ELSE TermScore(titleLower, keyLower, terms[i]) + Sum(i + 1)
    IN Sum(1)

categoryFilter(categories, result) ==
    \/ "all" \in Range(categories)
    \/ "records" \in Range(categories) /\ result.type = "record"
    \/ "documents" \in Range(categories) /\ result.type = "document"

DefaultLimit == 15

\* Array.prototype.slice(0, end)
sliceAll(s, end) == s

slice(s, end) ==
    LET stop == IF end < 0 THEN (IF Len(s) + end < 0 THEN 0 ELSE Len(s) + end)
                ELSE IF end > Len(s) THEN Len(s) ELSE end
    IN SubSeq(s, 1, stop)

CompareScoreDesc(a, b) == b.score - a.score

\* SearchService.search.  `limit` is <<>> when the query gives none, else <<n>>.
\* `results` keeps each returned item with the score it was sorted by; `scored`
\* is the number of calculateScore calls.
search(repo, q, categories, limit) ==
    IF Len(q) = 0 \/ Len(trim(q)) = 0 THEN [results |-> <<>>, scored |-> 0]
    ELSE LET searchTerms == splitOnWhitespace(toLowerCase(q))
             filtered == FilterSeq(buildIndex(repo), LAMBDA r : categoryFilter(categories, r))
             mapped == [i \in DOMAIN filtered |->
                          [result |-> filtered[i],
                           score  |-> calculateScore(filtered[i], searchTerms)]]
             positive == FilterSeq(mapped, LAMBDA e : e.score > 0)
             sorted == StableSort(positive, CompareScoreDesc)
         IN [results |-> slice(sorted, IF limit = <<>> THEN DefaultLimit ELSE limit[1]),
             scored  |-> Len(filtered)]

----------------------------------------------------------------------------
(* SearchService.search called on bounded repositories and queries *)

\* "API Layer" and "Documentation"; a document whose key is a word of a title
SearchDataTitles ==
    [records |-> << Record(<<"r", "1">>, <<"A", "P", "I", " ", "L", "a", "y", "e", "r">>,
                           <<>>, <<>>),
                    Record(<<"r", "2">>,
                           <<"D", "o", "c", "u", "m", "e", "n", "t", "a", "t", "i", "o", "n">>,
                           <<>>, <<>>) >>,
     documents |-> << Document(<<"a", "p", "i">>, <<"G", "u", "i", "d", "e">>, <<>>, <<>>, <<>>) >>]

\* items with equal scores, among them a record and a document
SearchDataTies ==
    [records |-> << Record(<<"x", "1">>, <<"a", "b", "c">>, <<>>, <<>>),
                    Record(<<"x", "2">>, <<"c", "a", "b">>, <<>>, <<>>),
                    Record(<<"x", "3">>, <<"a", "b", "c">>, <<>>, <<>>),
                    Record(<<"x", "1">>, <<"z", "z", "z">>, <<>>, <<>>) >>,
     documents |-> << Document(<<"x", "4">>, <<"a", "b", "c">>, <<>>, <<>>, <<>>),
                      Document(<<"x", "1">>, <<"a", "b", "c", "d">>, <<>>, <<>>, <<>>) >>]

\* more matching items than the default limit
SearchDataMany ==
    [records |-> [i \in 1..(DefaultLimit + 1) |->
                    Record(<<"k", LowerCase[i]>>, <<"a", "b">>, <<>>, <<>>)],
     documents |-> << Document(<<"k", "z">>, <<"a", "b">>, <<>>, <<>>, <<>>) >>]

SearchDataSets == {SearchDataTitles, SearchDataTies, SearchDataMany}

SearchQueries ==
    { <<>>, <<" ">>, <<" ", " ">>,
      <<"A", "P", "I">>, <<"a", "p", "i", " ", "l", "a", "y", "e", "r">>,
      <<"l", "a", "y", "e", "r", " ", " ", "A", "P", "I">>,
      <<"a">>, <<"a", "b", "c">>, <<"b", "c", "a">>, <<"x", "1">>, <<"k">>,
      <<"q", "q", "q">>, <<" ", "q", "q", "q">>, <<"q", "q", "q", " ">>,
      <<"d", "o", "c">> }

SearchCategories ==
    { <<"all">>, <<"records">>, <<"documents">>, <<"records", "documents">>, <<>> }

\* <<>> is a query without a limit
SearchLimits == {<<>>, <<0>>, <<1>>, <<2>>}

InitSearch ==
    \E data \in SearchDataSets :
        /\ phase = "search"
        /\ inRecords = data.records
        /\ inDocuments = data.documents
        /\ heapDocuments = deduplicateDocuments(data.documents).input
        /\ repository = createDataRepository(data.records, data.documents)
        /\ nodeIndex = createNodeIndex
        /\ nodes = <<>>
        /\ edges = <<>>
        /\ expandedState = EmptyMap
        /\ layoutDirection = "TB"
        /\ last = NoCall
        /\ steps = 0
        /\ searched = NoSearch
        /\ scheduled = <<>>

\* search reads the index the constructor built and writes nothing, so a second
\* call starts where the first did: a behaviour holds one call
Search(q, categories, limit) ==
    /\ phase = "search"
    /\ ~searched.called
    /\ LET r == search(repository, q, categories, limit)
       IN searched' = [called |-> TRUE, query |-> q, categories |-> categories,
                       limit |-> limit, results |-> r.results, scored |-> r.scored]
    /\ UNCHANGED <<phase, inRecords, inDocuments, heapDocuments, repository, nodeIndex, nodes,
                   edges, expandedState, layoutDirection, last, steps, scheduled>>

NextSearch ==
    \E q \in SearchQueries : \E categories \in SearchCategories : \E limit \in SearchLimits :
        Search(q, categories, limit)

SpecSearch == InitSearch /\ [][NextSearch]_vars

----------------------------------------------------------------------------
(* FlowWidget.tsx: the expand branch of handleNodeClick with React's state update *)
(* made visible.  A handler runs against the state of the last render and calls   *)
(* setNodes/setEdges with whole arrays; the calls take effect afterwards.  Here   *)
(* expand requests for one node id may be in flight together, computed from the   *)
(* same render or from different ones, and take effect in either order.           *)

MaxScheduled == 2

\* a state setter called with a value (not with an updater function)
setStateConcat(current, value) == current \o value

setState(current, value) == value

RemoveAt(s, k) == [i \in 1..(Len(s) - 1) |-> IF i < k THEN s[i] ELSE s[i + 1]]

ScheduleExpand(id) ==
    /\ phase = "mounted"
    /\ steps < MaxOps
    /\ steps' = steps + 1
    /\ HasNode(nodes, id)
    /\ Len(scheduled) < MaxScheduled
    /\ \A k \in DOMAIN scheduled : scheduled[k].id = id
    /\ LET r == expandNode(id, nodes, edges, repository, nodeIndex, layoutDirection)
       IN /\ scheduled' = Append(scheduled, [id |-> id, nodes |-> r.nodes, edges |-> r.edges,
                                             from |-> [nodes |-> nodes, edges |-> edges]])
          /\ nodeIndex' = r.index
    /\ UNCHANGED <<phase, inRecords, inDocuments, heapDocuments, repository, nodes, edges,
                   expandedState, layoutDirection, last, searched>>

ApplyScheduled(k) ==
    /\ phase = "mounted"
    /\ k \in DOMAIN scheduled
    /\ nodes' = setState(nodes, scheduled[k].nodes)
    /\ edges' = setState(edges, scheduled[k].edges)
    /\ expandedState' = MapSet(expandedState, scheduled[k].id, TRUE)
    /\ scheduled' = RemoveAt(scheduled, k)
    /\ last' = Call("apply", scheduled[k].id,
                    IF scheduled[k].from = [nodes |-> nodes, edges |-> edges]
                    THEN "fresh" ELSE "stale")
    /\ UNCHANGED <<phase, inRecords, inDocuments, heapDocuments, repository, nodeIndex,
                   layoutDirection, steps, searched>>

NextScheduled ==
    \/ \E id \in NodeIds : ScheduleExpand(id)
    \/ \E k \in 1..MaxScheduled : ApplyScheduled(k)

SpecScheduled == Init /\ [][NextScheduled]_vars

----------------------------------------------------------------------------
(* layout.ts as a function: calculateHierarchicalLayout applied to node and edge *)
(* lists in every order, without a root and with each root, in each direction    *)

Orderings(S) ==
    {s \in [1..Cardinality(S) -> S] : \A i, j \in 1..Cardinality(S) : s[i] = s[j] => i = j}

LayoutNode(key) ==
    getOrCreateRecordNode(createNodeIndex, Record(key, "T", <<>>, <<>>), [x |-> 0, y |-> 0]).node

LayoutEdge(sourceKey, targetKey) ==
    createEdge(createRecordNodeId(sourceKey), createRecordNodeId(targetKey), "is_parent_of")

\* a -> b -> c with the shortcut a -> c
LayoutShortcut ==
    [nodes |-> {LayoutNode("a"), LayoutNode("b"), LayoutNode("c")},
     edges |-> {LayoutEdge("a", "b"), LayoutEdge("b", "c"), LayoutEdge("a", "c")}]

\* a -> {b, c}, and d on its own
LayoutFork ==
    [nodes |-> {LayoutNode("a"), LayoutNode("b"), LayoutNode("c"), LayoutNode("d")},
     edges |-> {LayoutEdge("a", "b"), LayoutEdge("a", "c")}]

\* c -> a, a -> b -> a
LayoutLoop ==
    [nodes |-> {LayoutNode("a"), LayoutNode("b"), LayoutNode("c")},
     edges |-> {LayoutEdge("c", "a"), LayoutEdge("a", "b"), LayoutEdge("b", "a")}]

LayoutEmpty == [nodes |-> {}, edges |-> {}]

\* a -> b, and an edge from a to z, which is not among the nodes
LayoutDangling ==
    [nodes |-> {LayoutNode("a"), LayoutNode("b")},
     edges |-> {LayoutEdge("a", "b"), LayoutEdge("a", "z")}]

LayoutGraphs == {LayoutShortcut, LayoutFork, LayoutLoop, LayoutEmpty, LayoutDangling}

\* where a force-directed run can leave a node: the start is random in
\* [-200, 200) on both axes and every iteration moves a node by 0.5
SettledPositions == {[x |-> -200, y |-> -200], [x |-> 150, y |-> 25]}

LayoutDirections == {"LR", "TB", "RL", "BT"}

InitLayout ==
    \E graph \in LayoutGraphs :
        \E ns \in Orderings(graph.nodes) : \E es \in Orderings(graph.edges) :
            /\ phase = "layout"
            /\ inRecords = <<>>
            /\ inDocuments = <<>>
            /\ heapDocuments = <<>>
            /\ repository = EmptyRepository
            /\ nodeIndex = createNodeIndex
            /\ nodes = ns
            /\ edges = es
            /\ expandedState = EmptyMap
            /\ layoutDirection = "TB"
            /\ last = NoCall
            /\ steps = 0
            /\ searched = NoSearch
            /\ scheduled = <<>>

\* the caller replaces its node list by the layouted one
Layout(rootNodeId, direction) ==
    /\ phase = "layout"
    /\ nodes' = calculateHierarchicalLayout(nodes, edges, rootNodeId, direction)
    /\ last' = Call("calculateHierarchicalLayout", rootNodeId, direction)
    /\ UNCHANGED <<phase, inRecords, inDocuments, heapDocuments, repository, nodeIndex,
                   edges, expandedState, layoutDirection, steps, searched, scheduled>>

ForceLayout(iterations, settled) ==
    /\ phase = "layout"
    /\ LET r == calculateForceDirectedLayout(nodes, edges, iterations, settled)
       IN IF r.threw
          THEN /\ UNCHANGED nodes
               /\ last' = Call("calculateForceDirectedLayout", "", "TypeError")
          ELSE /\ nodes' = r.nodes
               /\ last' = Call("calculateForceDirectedLayout", "", "ok")
    /\ UNCHANGED <<phase, inRecords, inDocuments, heapDocuments, repository, nodeIndex,
                   edges, expandedState, layoutDirection, steps, searched, scheduled>>

CircularLayout ==
    /\ phase = "layout"
    /\ nodes' = calculateCircularLayout(nodes)
    /\ last' = Call("calculateCircularLayout", "", "ok")
    /\ UNCHANGED <<phase, inRecords, inDocuments, heapDocuments, repository, nodeIndex,
                   edges, expandedState, layoutDirection, steps, searched, scheduled>>

NextLayout ==
    \/ \E rootNodeId \in {undefined, createRecordNodeId("z")}
                              \cup {nodes[i].id : i \in DOMAIN nodes} :
          \E direction \in LayoutDirections :
              Layout(rootNodeId, direction)
    \/ \E iterations \in {0, 50} :
          \E settled \in [{nodes[i].id : i \in DOMAIN nodes} -> SettledPositions] :
              ForceLayout(iterations, settled)
    \/ CircularLayout

SpecLayout == InitLayout /\ [][NextLayout]_vars

----------------------------------------------------------------------------
(* Properties.  EdgePairs, ForwardClosure, FirstRecordIndex, FirstDocumentIndex, *)
(* SemanticDescending, LinkedNodeIds, ScoresNonIncreasing, IndexPosition, Words, *)
(* LaidOut, NoIncomingEdge, PositionOf, PathLengths, PrimaryAxis, CrossAxis,     *)
(* NoDuplicates, LinksOf, HasTriple, LinkShown, SelectedTarget, Connected,       *)
(* WithoutPosition, FreshRoot, ExpandedAndCollapsed, KeyedNodes and Kept are the *)
(* vocabulary of the properties, not steps of the program.                       *)

EdgePairs == {<<edges[i].source, edges[i].target>> : i \in DOMAIN edges}

IsExpandedField(n) == "isExpanded" \in DOMAIN n.data /\ n.data.isExpanded

\* the node ids reachable from id over one or more edges of es
ForwardClosure(id, es) ==
    LET RECURSIVE Grow(_)
        Grow(S) ==
            LET T == S \cup {es[i].target : i \in {j \in DOMAIN es : es[j].source \in S \cup {id}}}
            IN IF T = S THEN S ELSE Grow(T)
    IN Grow({})

\* C1: whatever clicks, search selections, Expand All and Clear Graph have run,
\* no two visible nodes have the same id: at most one node per record key, per
\* document key and per version id.
C1_OneNodePerEntity ==
    \A i, j \in DOMAIN nodes :
        i # j =>
            /\ nodes[i].id # nodes[j].id
            /\ ~(nodes[i].type = "record" /\ nodes[j].type = "record"
                 /\ nodes[i].data.recordKey = nodes[j].data.recordKey)
            /\ ~(nodes[i].type = "document" /\ nodes[j].type = "document"
                 /\ nodes[i].data.documentKey = nodes[j].data.documentKey)
            /\ ~(nodes[i].type = "documentVersion" /\ nodes[j].type = "documentVersion"
                 /\ nodes[i].data.versionId = nodes[j].data.versionId)

\* an expansion has just offered a child that was already visible: some node has
\* edges from two different parents
C1_Witness ==
    /\ last.op \in {"expand", "expandAll", "search"}
    /\ \E i, j \in DOMAIN edges :
          edges[i].target = edges[j].target /\ edges[i].source # edges[j].source

\* C2: no two visible edges have the same (source, target, linkType).
C2_EdgeTriplesUnique ==
    \A i, j \in DOMAIN edges :
        (/\ edges[i].source = edges[j].source
         /\ edges[i].target = edges[j].target
         /\ edges[i].data.linkType = edges[j].data.linkType) => i = j

\* a record whose links name the same target twice has just been expanded
C2_Witness ==
    /\ last.op = "expand"
    /\ \E k \in DOMAIN repository.records :
          /\ last.id = createRecordNodeId(k)
          /\ \E a, b \in DOMAIN repository.records[k].linkedRecords :
                /\ a # b
                /\ repository.records[k].linkedRecords[a].recordKey
                     = repository.records[k].linkedRecords[b].recordKey
                /\ HasRecord(repository, repository.records[k].linkedRecords[a].recordKey)
    /\ \E i \in DOMAIN edges : edges[i].source = last.id

\* C3: when the visible edges are the cycle A -> B -> A, collapse(A) returns, and
\* the descendant closure and the ancestor closure of A are both exactly {A, B}.
C3_CycleSafe ==
    /\ last.op = "collapse" => last.outcome = "ok"
    /\ \A a, b \in NodeIds :
          (a # b /\ EdgePairs = {<<a, b>>, <<b, a>>}) =>
              /\ ~getNodeDescendants(a, edges).overflow
              /\ getNodeDescendants(a, edges).ids = {a, b}
              /\ Range(findAncestors(a, edges)) = {a, b}

\* C4: a collapse of n removes exactly the nodes forward-reachable from n (n stays),
\* removes every edge with an end in that closure, and leaves the rest in place.
C4_CollapseRemovesExactlyTheClosure ==
    [][ (last'.op = "collapse" /\ steps' # steps) =>
          LET id == last'.id
              closure == ForwardClosure(id, edges)
          IN /\ nodes' = FilterSeq(nodes, LAMBDA n : n.id = id \/ n.id \notin closure)
             /\ edges' = FilterSeq(edges, LAMBDA e : e.source \notin closure
                                                     /\ e.target \notin closure) ]_vars

\* C5: expand is idempotent: from every reachable visible graph and for every
\* visible node n, expanding n a second time returns the nodes (ids, expanded
\* marks, positions, order) and the edges that the first expansion returned.
C5_ExpandIdempotent ==
    \A id \in NodeIds :
        LET once == expandNode(id, nodes, edges, repository, nodeIndex, layoutDirection)
            twice == expandNode(id, once.nodes, once.edges, repository, once.index,
                                layoutDirection)
        IN /\ twice.nodes = once.nodes
           /\ twice.edges = once.edges
           /\ Len(twice.edges) = Len(once.edges)

\* a node with children has just been expanded by a click
C5_Witness ==
    /\ last.op = "expand"
    /\ Cardinality({i \in DOMAIN edges : edges[i].source = last.id}) >= 2

\* C6: after a click expands a document node, every version of the document has a
\* visible version node and an is_parent_of edge from the document node.
C6_DocumentExpandShowsVersions ==
    \A k \in DOMAIN repository.documents :
        (last.op = "expand" /\ last.id = createDocumentNodeId(k)) =>
            \A v \in Range(repository.documents[k].versions) :
                /\ HasNode(nodes, createDocumentVersionNodeId(v.versionId))
                /\ ~isEdgeUnique(edges, last.id, createDocumentVersionNodeId(v.versionId),
                                 "is_parent_of")

\* C7: after an expand or a collapse of n, expandedState[n] and the node's own
\* isExpanded both equal the new state.
C7_FlagAndFieldAgree ==
    (last.op \in {"expand", "collapse"} /\ last.outcome = "ok") =>
        /\ IsExpandedFlag(expandedState, last.id) = (last.op = "expand")
        /\ IsExpandedField(FindNode(nodes, last.id)) = (last.op = "expand")

\* C8: expandNode with an id that is not among the nodes, or for a node whose
\* record or document the repository does not hold, returns the nodes and edges
\* unchanged and leaves the node index as it was; expandNodePath on an id with no
\* incoming edge returns its inputs unchanged.
C8_UnknownIsNoOp ==
    \A id \in CallIds :
        /\ ExpandOutcome(id) \in {"unknownNode", "absentEntity"} =>
              expandNode(id, nodes, edges, repository, nodeIndex, layoutDirection)
                 = [nodes |-> nodes, edges |-> edges, index |-> nodeIndex]
        /\ (~\E i \in DOMAIN edges : edges[i].target = id) =>
              expandNodePath(id, nodes, edges, repository, nodeIndex)
                 = [nodes |-> nodes, edges |-> edges, index |-> nodeIndex]

\* expandNode has just been called on a node whose entity is gone, in a graph
\* that already has edges
C8_Witness ==
    /\ last.op = "expandNode"
    /\ last.outcome = "absentEntity"
    /\ Len(edges) > 0

FirstRecordIndex(recordKey) ==
    CHOOSE i \in DOMAIN inRecords :
        /\ inRecords[i].recordKey = recordKey
        /\ \A j \in 1..(i - 1) : inRecords[j].recordKey # recordKey

\* C9: the repository holds exactly one record per distinct recordKey of the
\* input, the first occurrence, and keeps first-occurrence order.
C9_FirstRecordWins ==
    phase = "built" =>
        LET out == repository.allRecords
        IN /\ {out[i].recordKey : i \in DOMAIN out}
                = {inRecords[i].recordKey : i \in DOMAIN inRecords}
           /\ \A i, j \in DOMAIN out : out[i].recordKey = out[j].recordKey => i = j
           /\ \A i \in DOMAIN out : out[i] = inRecords[FirstRecordIndex(out[i].recordKey)]
           /\ \A i, j \in DOMAIN out :
                 i < j => FirstRecordIndex(out[i].recordKey) < FirstRecordIndex(out[j].recordKey)
           /\ DOMAIN repository.records = {out[i].recordKey : i \in DOMAIN out}
           /\ \A i \in DOMAIN out : repository.records[out[i].recordKey] = out[i]

\* a key came three times, with two titles
C9_Witness ==
    /\ phase = "built"
    /\ Len(inRecords) = 3
    /\ Len(repository.allRecords) = 1
    /\ inRecords[1].title # inRecords[2].title
    /\ inRecords[1].linkedRecords # inRecords[3].linkedRecords

FirstDocumentIndex(documentKey) ==
    CHOOSE i \in DOMAIN inDocuments :
        /\ inDocuments[i].documentKey = documentKey
        /\ \A j \in 1..(i - 1) : inDocuments[j].documentKey # documentKey

SemanticDescending(versions) ==
    \A i, j \in DOMAIN versions :
        i < j =>
            \/ CompareVersionNumberDesc(versions[i], versions[j]) < 0
            \/ /\ CompareVersionNumberDesc(versions[i], versions[j]) = 0
               /\ versions[i].createdAt >= versions[j].createdAt

\* C11: the versions of a document that went through a merge, and data.versions of
\* every document node, are in descending semantic-version order (a missing
\* segment counting as 0), equal version numbers by descending createdAt.
C11_VersionsSemanticDescending ==
    phase = "built" =>
        \A i \in DOMAIN repository.allDocuments :
            LET document == repository.allDocuments[i]
                merged == Cardinality({j \in DOMAIN inDocuments :
                                          inDocuments[j].documentKey = document.documentKey}) > 1
                node == getOrCreateDocumentNode(createNodeIndex, document, [x |-> 0, y |-> 0]).node
            IN /\ merged => SemanticDescending(document.versions)
               /\ SemanticDescending(node.data.versions)

\* a cache hit is possible for this node and position: what getOrCreate* returns
MemoHit(node, position) ==
    IF node.type = "record"
    THEN getOrCreateRecordNode(nodeIndex, [recordKey |-> node.data.recordKey], position)
    ELSE IF node.type = "document"
    THEN getOrCreateDocumentNode(nodeIndex, [documentKey |-> node.data.documentKey], position)
    ELSE getOrCreateDocumentVersionNode(nodeIndex, node.data.documentKey,
                                        [versionId |-> node.data.versionId], position)

\* C12: getOrCreate* for a key already in the node index returns the node the
\* first call created, position included, whatever position is passed, and
\* leaves the index as it was; and no handler ever changes an entry of the index.
C12_MemoizedNodeUnchanged ==
    /\ [](\A id \in DOMAIN nodeIndex.nodeById :
            \A position \in {[x |-> 0, y |-> 0], [x |-> 777, y |-> -777]} :
                MemoHit(nodeIndex.nodeById[id], position)
                    = [node |-> nodeIndex.nodeById[id], index |-> nodeIndex])
    /\ [][\A id \in DOMAIN nodeIndex.nodeById :
            /\ id \in DOMAIN nodeIndex'.nodeById
            /\ nodeIndex'.nodeById[id] = nodeIndex.nodeById[id]]_vars

\* an expansion has just met a child that the index already held (the child has
\* two parents) and the layout shows that child away from its creation position
C12_Witness ==
    /\ last.op = "expand"
    /\ \E i, j \in DOMAIN edges :
          /\ edges[i].target = edges[j].target
          /\ edges[i].source # edges[j].source
          /\ edges[j].source = last.id
          /\ edges[i].target \in DOMAIN nodeIndex.nodeById
          /\ FindNode(nodes, edges[i].target).position
               # nodeIndex.nodeById[edges[i].target].position


\* C13: two different entities never get the same node id or the same node from
\* the node index: two records, two documents, a record and a document, or two
\* versions of two different documents.
C13_NodeIdInjective ==
    phase = "built" =>
        LET origin == [x |-> 0, y |-> 0]
        IN /\ \A a, b \in Range(repository.allRecords) :
                 a.recordKey # b.recordKey =>
                     createRecordNodeId(a.recordKey) # createRecordNodeId(b.recordKey)
           /\ \A a \in Range(repository.allRecords) :
                 \A b \in Range(repository.allDocuments) :
                     createRecordNodeId(a.recordKey) # createDocumentNodeId(b.documentKey)
           /\ \A a, b \in Range(repository.allDocuments) :
                 a.documentKey # b.documentKey =>
                     /\ createDocumentNodeId(a.documentKey) # createDocumentNodeId(b.documentKey)
                     /\ \A va \in Range(a.versions) :
                           \A vb \in Range(b.versions) :
                               LET first == getOrCreateDocumentVersionNode(
                                                createNodeIndex, a.documentKey, va, origin)
                                   second == getOrCreateDocumentVersionNode(
                                                first.index, b.documentKey, vb, origin)
                               IN /\ first.node.id # second.node.id
                                  /\ first.node # second.node
                                  /\ second.node.data.documentKey = b.documentKey

\* the node ids of the entities that the entity of node n links to
LinkedNodeIds(n) ==
    LET entity == IF n.type = "record" /\ HasRecord(repository, n.data.recordKey)
                  THEN getRecord(repository, n.data.recordKey)
                  ELSE IF n.type = "document" /\ HasDocument(repository, n.data.documentKey)
                  THEN getDocument(repository, n.data.documentKey)
                  ELSE [linkedRecords |-> <<>>, linkedDocuments |-> <<>>]
    IN {createRecordNodeId(l.recordKey) : l \in Range(entity.linkedRecords)}
       \cup {createDocumentNodeId(l.documentKey) : l \in Range(entity.linkedDocuments)}

\* C14: when a search result T is selected whose node is not visible while the
\* entity of a visible node P links to T's entity, then after the selection T is
\* visible exactly once and there is a visible edge from P to T.
C14_SearchSelectWiresTarget ==
    [][ (last'.op = "search" /\ steps' # steps /\ ~HasNode(nodes, last'.id)) =>
          \A i \in DOMAIN nodes :
              last'.id \in LinkedNodeIds(nodes[i]) =>
                  /\ Cardinality({j \in DOMAIN nodes' : nodes'[j].id = last'.id}) = 1
                  /\ \E e \in DOMAIN edges' :
                        edges'[e].source = nodes[i].id /\ edges'[e].target = last'.id ]_vars

\* C15: a collapse changes neither the repository nor the node index, and the
\* expansion of a node that was collapsed before adds no entry to the node index:
\* every child it shows is the node the index already held, with its id and its
\* creation-time position.
C15_CollapseKeepsIndexReexpandReuses ==
    [][ /\ (last'.op = "collapse" /\ steps' # steps) =>
              (repository' = repository /\ nodeIndex' = nodeIndex)
        /\ (/\ last'.op = "expand"
            /\ steps' # steps
            /\ last'.id \in DOMAIN expandedState
            /\ ~expandedState[last'.id]) =>
              /\ repository' = repository
              /\ nodeIndex' = nodeIndex
              /\ \A e \in DOMAIN edges' :
                    edges'[e].source = last'.id =>
                        /\ edges'[e].target \in DOMAIN nodeIndex.nodeById
                        /\ HasNode(nodes', edges'[e].target) ]_vars

\* C16: every node of the node index has childCount = the number of distinct
\* linked record keys + the number of distinct linked document keys of its
\* entity, + the number of versions for a document node; a version node has 0.
C16_ChildCount ==
    \A id \in DOMAIN nodeIndex.nodeById :
        LET n == nodeIndex.nodeById[id]
            Distinct(entity) ==
                Cardinality({l.recordKey : l \in Range(entity.linkedRecords)})
                + Cardinality({l.documentKey : l \in Range(entity.linkedDocuments)})
        IN IF n.type = "record"
           THEN HasRecord(repository, n.data.recordKey) =>
                    n.data.childCount = Distinct(getRecord(repository, n.data.recordKey))
           ELSE IF n.type = "document"
           THEN HasDocument(repository, n.data.documentKey) =>
                    n.data.childCount
                       = Distinct(getDocument(repository, n.data.documentKey))
                         + Cardinality({v.versionId :
                               v \in Range(getDocument(repository, n.data.documentKey).versions)})
           ELSE n.data.childCount = 0

\* the index holds the node of a record that names one key in two of its links
C16_Witness ==
    \E id \in DOMAIN nodeIndex.nodeById :
        LET n == nodeIndex.nodeById[id]
        IN /\ n.type = "record"
           /\ HasRecord(repository, n.data.recordKey)
           /\ n.data.childCount > 0
           /\ n.data.childCount < Len(getRecord(repository, n.data.recordKey).linkedRecords)

\* C17: building the repository leaves its inputs as they were: after
\* createDataRepository every input document object, its versions array
\* included, has the content it had before the call.
C17_InputsUntouched ==
    phase = "built" => heapDocuments = inDocuments

\* the scores of the returned items never increase along the result
ScoresNonIncreasing(results) ==
    \A i, j \in DOMAIN results : i < j => results[i].score >= results[j].score

\* the place of an item in the index: records in repository order, then documents
IndexPosition(result) ==
    CHOOSE i \in DOMAIN buildIndex(repository) : buildIndex(repository)[i] = result

\* C18: search returns at most `limit` results (15 when the query gives no
\* limit), every returned item has a score above 0, the scores never increase
\* along the result, and items of equal score stand in index order.
C18_SearchResultsOrdered ==
    searched.called =>
        /\ Len(searched.results)
             <= (IF searched.limit = <<>> THEN 15 ELSE searched.limit[1])
        /\ \A i \in DOMAIN searched.results : searched.results[i].score > 0
        /\ ScoresNonIncreasing(searched.results)
        /\ \A i, j \in DOMAIN searched.results :
              (i < j /\ searched.results[i].score = searched.results[j].score) =>
                  IndexPosition(searched.results[i].result)
                     < IndexPosition(searched.results[j].result)

\* a query without a limit matched more than 15 items, all with one score, among
\* them a document
C18_Witness ==
    /\ searched.called
    /\ searched.limit = <<>>
    /\ Len(searched.results) = 15
    /\ Len(buildIndex(repository)) > 15
    /\ searched.results[1].score = searched.results[15].score

\* C19: for an empty or whitespace-only query search returns the empty sequence
\* and computes no score.
C19_BlankQueryReturnsEmpty ==
    (searched.called /\ \A i \in DOMAIN searched.query : IsWhitespace(searched.query[i])) =>
        /\ searched.results = <<>>
        /\ searched.scored = 0

\* a query of two spaces was run against a repository with items, in a category
\* that holds some
C19_Witness ==
    /\ searched.called
    /\ Len(searched.query) = 2
    /\ \A i \in DOMAIN searched.query : IsWhitespace(searched.query[i])
    /\ Len(buildIndex(repository)) > 0
    /\ searched.categories = <<"all">>

\* the words of a query: its maximal runs of characters that are not whitespace
Words(q) == {w \in Range(splitOnWhitespace(toLowerCase(q))) : Len(w) > 0}

\* C20: for a query that is not only whitespace, if none of its words is a
\* substring of an indexed title or key, nor similar (> 0.6) to a title, search
\* returns no results.
C20_NoMatchReturnsEmpty ==
    (/\ searched.called
     /\ \E i \in DOMAIN searched.query : ~IsWhitespace(searched.query[i])
     /\ \A w \in Words(searched.query) :
           \A r \in Range(buildIndex(repository)) :
               /\ ~includes(toLowerCase(r.title), w)
               /\ ~includes(toLowerCase(r.key), w)
               /\ calculateSimilarity(toLowerCase(r.title), w) * 10 <= 6 * Scale)
        => searched.results = <<>>

\* C21: a version without a versionId is skipped by the merge: it is not among
\* the versions of a document that went through a merge.
C21_VersionWithoutIdSkipped ==
    phase = "built" =>
        \A i \in DOMAIN repository.allDocuments :
            LET document == repository.allDocuments[i]
                merged == Cardinality({j \in DOMAIN inDocuments :
                                          inDocuments[j].documentKey = document.documentKey}) > 1
            IN merged => \A v \in Range(document.versions) : v.versionId # undefined

LaidOut == phase = "layout" /\ last'.op = "calculateHierarchicalLayout" /\ nodes # <<>>

NoIncomingEdge(ns, es) == {i \in DOMAIN ns : \A j \in DOMAIN es : es[j].target # ns[i].id}

\* C22: a layout called without a root measures depths from the first node of the
\* list that has no incoming edge (when there is such a node).
C22_DefaultRootIsFirstWithoutIncomingEdge ==
    [][(LaidOut /\ last'.id = undefined /\ NoIncomingEdge(nodes, edges) # {}) =>
          LET first == CHOOSE i \in NoIncomingEdge(nodes, edges) :
                           \A j \in NoIncomingEdge(nodes, edges) : i <= j
              levels == calculateLevels(nodes, edges, undefined)
          IN /\ levels = calculateLevels(nodes, edges, nodes[first].id)
             /\ nodes' = calculateHierarchicalLayout(nodes, edges, nodes[first].id,
                                                     last'.outcome)]_vars

PositionOf(ns) ==
    [id \in {ns[i].id : i \in DOMAIN ns} |->
        ns[CHOOSE i \in DOMAIN ns : ns[i].id = id].position]

\* C23: the layout depends on the set of nodes, the set of edges and the root only:
\* listing the same nodes and edges in another order gives every node the same
\* level and the same position.
C23_LayoutIndependentOfListingOrder ==
    [][(LaidOut /\ last'.id # undefined) =>
          \A ns \in Orderings(Range(nodes)) : \A es \in Orderings(Range(edges)) :
              /\ calculateLevels(ns, es, last'.id) = calculateLevels(nodes, edges, last'.id)
              /\ PositionOf(calculateHierarchicalLayout(ns, es, last'.id, last'.outcome))
                     = PositionOf(nodes')]_vars

\* the lengths of the paths along edges from one node to another that pass no node
\* twice
PathLengths(es, from, to) ==
    LET RECURSIVE Walk(_, _)
        Walk(id, seen) ==
            IF id = to THEN {Cardinality(seen)}
            ELSE UNION {Walk(es[j].target, seen \cup {id}) :
                           j \in {k \in DOMAIN es : /\ es[k].source = id
                                                    /\ es[k].target \notin seen \cup {id}}}
    IN Walk(from, {})

PrimaryAxis(n, direction) ==
    IF direction \in {"LR", "RL"} THEN n.position.x ELSE n.position.y

CrossAxis(n, direction) ==
    IF direction \in {"LR", "RL"} THEN n.position.y ELSE n.position.x

\* C30: a node's level is its depth from the root along edges (0 when the root
\* does not reach it); on the primary axis a node of level L lies at
\* L * (nodeExtent + levelGap), negated for RL and BT; the nodes of a level lie
\* nodeExtent + nodeGap apart on the cross axis, around 0.
C30_LevelsAndCoordinates ==
    [][(LaidOut /\ last'.id # undefined) =>
          LET direction == last'.outcome
              horizontal == direction \in {"LR", "RL"}
              sign == IF direction \in {"RL", "BT"} THEN -1 ELSE 1
              levelStep == IF horizontal THEN DEFAULT_NODE_WIDTH + HierarchicalLevelGap
                           ELSE DEFAULT_NODE_HEIGHT + HierarchicalLevelGap
              crossStep == IF horizontal THEN DEFAULT_NODE_HEIGHT + HierarchicalNodeGap
                           ELSE DEFAULT_NODE_WIDTH + HierarchicalNodeGap
              levels == calculateLevels(nodes, edges, last'.id)
              AtLevel(l) == {i \in DOMAIN nodes' : levels[nodes'[i].id] = l}
          IN \A i \in DOMAIN nodes' :
                LET n == nodes'[i]
                    level == levels[n.id]
                    depths == PathLengths(edges, last'.id, n.id)
                    first == CHOOSE j \in AtLevel(level) :
                                 \A k \in AtLevel(level) :
                                     CrossAxis(nodes'[j], direction)
                                         <= CrossAxis(nodes'[k], direction)
                    cross0 == CrossAxis(nodes'[first], direction)
                IN /\ IF depths = {} THEN level = 0 ELSE level \in depths
                   /\ PrimaryAxis(n, direction) = sign * level * levelStep
                   /\ {CrossAxis(nodes'[k], direction) : k \in AtLevel(level)}
                         = {cross0 + k * crossStep : k \in 0..(Cardinality(AtLevel(level)) - 1)}
                   /\ cross0 <= 0
                   /\ 0 <= cross0 + Cardinality(AtLevel(level)) * crossStep]_vars

NoDuplicates(s) == \A i, j \in DOMAIN s : s[i] = s[j] => i = j

\* C24: two expand requests for one node id, computed from the same visible graph
\* or one after the other took effect, and applied in either order, leave no
\* duplicate node id and no duplicate (source, target, linkType) edge, and the
\* graph after both is the graph after one.
C24_ConcurrentExpandsOfOneNode ==
    /\ [](/\ NoDuplicates([i \in DOMAIN nodes |-> nodes[i].id])
          /\ NoDuplicates([i \in DOMAIN edges |->
                              <<edges[i].source, edges[i].target, edges[i].data.linkType>>]))
    /\ [][\A k \in DOMAIN scheduled :
             (ApplyScheduled(k) /\ last.op = "apply" /\ last.id = scheduled[k].id) =>
                 (nodes' = nodes /\ edges' = edges)]_vars

\* the second of two requests computed from one render takes effect, on a graph
\* that the first one grew
C24_Witness ==
    /\ last.op = "apply"
    /\ last.outcome = "stale"
    /\ scheduled = <<>>
    /\ \E i \in DOMAIN edges : edges[i].source = last.id

\* the links of the entity behind a record or document node
LinksOf(n) ==
    IF n.type = "record"
    THEN LET record == getRecord(repository, n.data.recordKey)
         IN [records |-> record.linkedRecords, documents |-> record.linkedDocuments]
    ELSE LET document == getDocument(repository, n.data.documentKey)
         IN [records |-> document.linkedRecords, documents |-> document.linkedDocuments]

HasTriple(es, sourceId, targetId, linkType) ==
    \E i \in DOMAIN es : /\ es[i].source = sourceId
                         /\ es[i].target = targetId
                         /\ es[i].data.linkType = linkType

\* what a link of n to an entity of the repository shows after expand(n), and
\* what a link to a key the repository does not have leaves out
LinkShown(ns, es, sourceId, targetId, linkType, exists) ==
    IF exists
    THEN HasNode(ns, targetId) /\ HasTriple(es, sourceId, targetId, linkType)
    ELSE ~HasNode(ns, targetId) /\ \A i \in DOMAIN es : es[i].target # targetId

\* C25: after expand(n) of a record or document node, every link of n's entity
\* that carries a link type has its edge (n, target, linkType) and its target
\* node when the target is in the repository (one edge per link type, also for
\* two links to one target), and neither when it is not.
C25_EdgesMatchLinks ==
    [][(phase = "mounted" /\ last'.op = "expand" /\ HasNode(nodes, last'.id)
          /\ FindNode(nodes, last'.id).type \in {"record", "document"}) =>
          LET n == FindNode(nodes, last'.id)
              links == LinksOf(n)
          IN /\ \A i \in DOMAIN links.records :
                    links.records[i].linkType # "" =>
                        LinkShown(nodes', edges', n.id,
                                  createRecordNodeId(links.records[i].recordKey),
                                  links.records[i].linkType,
                                  HasRecord(repository, links.records[i].recordKey))
             /\ \A i \in DOMAIN links.documents :
                    links.documents[i].linkType # "" =>
                        LinkShown(nodes', edges', n.id,
                                  createDocumentNodeId(links.documents[i].documentKey),
                                  links.documents[i].linkType,
                                  HasDocument(repository, links.documents[i].documentKey))]_vars

\* C26: what expand(n) makes of the visible graph is what expandNodeHelper, the
\* step of expandPath, makes of the same graph, repository and index: the same
\* node ids, the same edges, the same positions.
C26_HelperExpandsAsTheHook ==
    [][(phase = "mounted" /\ last'.op = "expand") =>
          LET helped == expandNodeHelper(last'.id, nodes, edges, repository, nodeIndex)
          IN /\ {helped.nodes[i].id : i \in DOMAIN helped.nodes} = {nodes'[i].id : i \in DOMAIN nodes'}
             /\ Range(helped.edges) = Range(edges')
             /\ PositionOf(helped.nodes) = PositionOf(nodes')]_vars

\* the target node of the search selection that made node id `id`, with the index
\* as getOrCreate left it
SelectedTarget(id) ==
    IF \E key \in DOMAIN repository.records : createRecordNodeId(key) = id
    THEN getOrCreateRecordNode(
             nodeIndex,
             getRecord(repository,
                       CHOOSE key \in DOMAIN repository.records : createRecordNodeId(key) = id),
             [x |-> 0, y |-> 0])
    ELSE getOrCreateDocumentNode(
             nodeIndex,
             getDocument(repository,
                         CHOOSE key \in DOMAIN repository.documents :
                             createDocumentNodeId(key) = id),
             [x |-> 0, y |-> 0])

\* C27: after a search selection the visible nodes and edges are the pair that
\* expandPath returned, or the nodes and edges from before it ran (with the
\* target node placed); never the nodes of one with the edges of the other.
C27_SearchSelectAppliesPathWhole ==
    [][(phase = "mounted" /\ last'.op = "search") =>
          LET made == SelectedTarget(last'.id)
              path == expandNodePath(last'.id, nodes, edges, repository, made.index)
              placed == IF HasNode(nodes, last'.id) THEN nodes ELSE Append(nodes, made.node)
          IN \/ nodes' = path.nodes /\ edges' = path.edges
             \/ nodes' = placed /\ edges' = edges]_vars

Connected(sourceId, targetId) ==
    /\ HasNode(nodes, targetId)
    /\ \E i \in DOMAIN edges : edges[i].source = sourceId /\ edges[i].target = targetId

\* C28: a visible record or document node whose expanded flag is set has every
\* linked record and document that the repository holds visible and connected
\* to it by an edge.
C28_ExpandedFlagNotStale ==
    phase = "mounted" =>
        \A i \in DOMAIN nodes :
            (nodes[i].type \in {"record", "document"}
                /\ IsExpandedFlag(expandedState, nodes[i].id)) =>
                LET links == LinksOf(nodes[i])
                IN /\ \A j \in DOMAIN links.records :
                          HasRecord(repository, links.records[j].recordKey) =>
                              Connected(nodes[i].id,
                                        createRecordNodeId(links.records[j].recordKey))
                   /\ \A j \in DOMAIN links.documents :
                          HasDocument(repository, links.documents[j].documentKey) =>
                              Connected(nodes[i].id,
                                        createDocumentNodeId(links.documents[j].documentKey))

\* C29: every visible edge has its source and its target among the visible
\* nodes.
C29_NoDanglingEdge ==
    phase = "mounted" =>
        \A i \in DOMAIN edges : HasNode(nodes, edges[i].source) /\ HasNode(nodes, edges[i].target)

\* a collapse took a node away that a node outside the collapsed subtree links
\* to, and left other edges in place
C29_Witness ==
    /\ last.op = "collapse"
    /\ last.outcome = "ok"
    /\ edges # <<>>
    /\ \E i \in DOMAIN nodes :
          /\ nodes[i].id # last.id
          /\ nodes[i].type = "record"
          /\ IsExpandedFlag(expandedState, nodes[i].id)
          /\ \E j \in DOMAIN LinksOf(nodes[i]).records :
                LET key == LinksOf(nodes[i]).records[j].recordKey
                IN HasRecord(repository, key) /\ ~HasNode(nodes, createRecordNodeId(key))

WithoutPosition(n) == [f \in (DOMAIN n) \ {"position"} |-> n[f]]

\* C31: a layout function returns its input nodes: as many nodes, the same ids,
\* every field but the position as it was; also for no nodes, for a root that is
\* not a node and for edges that end at no node.
C31_LayoutReturnsItsInputNodes ==
    [][(phase = "layout" /\ last'.op # "none") =>
          /\ last'.outcome # "TypeError"
          /\ Len(nodes') = Len(nodes)
          /\ {WithoutPosition(nodes'[i]) : i \in DOMAIN nodes'}
                 = {WithoutPosition(nodes[i]) : i \in DOMAIN nodes}]_vars

\* C32: no two visible nodes have the same position.
C32_NoTwoNodesAtOnePosition ==
    phase = "mounted" =>
        \A i, j \in DOMAIN nodes : nodes[i].position = nodes[j].position => i = j

\* the widget as mounted on the entity of node id `id`: the node and the index
FreshRoot(id) ==
    IF \E key \in DOMAIN repository.records : createRecordNodeId(key) = id
    THEN getOrCreateRecordNode(
             createNodeIndex,
             getRecord(repository,
                       CHOOSE key \in DOMAIN repository.records : createRecordNodeId(key) = id),
             [x |-> 0, y |-> 0])
    ELSE getOrCreateDocumentNode(
             createNodeIndex,
             getDocument(repository,
                         CHOOSE key \in DOMAIN repository.documents :
                             createDocumentNodeId(key) = id),
             [x |-> 0, y |-> 0])

\* the first two handlers were expand(A) and collapse(A) on the initial node A
ExpandedAndCollapsed == phase = "mounted" /\ steps = 2 /\ last.op = "collapse"

\* C33: from a graph of the one node A, expand(A) then collapse(A) leaves node A
\* alone and no edge, and the next expand(A) shows the node ids and the edges
\* that the first one showed.
C33_CollapseUndoesExpand ==
    /\ [](ExpandedAndCollapsed =>
            /\ last.outcome = "ok"
            /\ [i \in DOMAIN nodes |-> nodes[i].id] = <<last.id>>
            /\ edges = <<>>)
    /\ [][(ExpandedAndCollapsed /\ last'.op = "expand" /\ last'.id = last.id) =>
             LET root == FreshRoot(last.id)
                 first == expandNode(last.id, <<root.node>>, <<>>, repository, root.index,
                                     layoutDirection)
             IN /\ {nodes'[i].id : i \in DOMAIN nodes'}
                      = {first.nodes[i].id : i \in DOMAIN first.nodes}
                /\ Len(nodes') = Len(first.nodes)
                /\ edges' = first.edges]_vars

\* expand(A) showed at least two children and collapse(A) took them away
C33_Witness ==
    /\ ExpandedAndCollapsed
    /\ Len(nodes) = 1
    /\ Cardinality(DOMAIN nodeIndex.nodeById) >= 3

KeyedNodes(index) ==
    Range(index.recordsByKey) \cup Range(index.documentsByKey) \cup Range(index.versionsById)

Kept(before, after) ==
    \A key \in DOMAIN before : key \in DOMAIN after /\ after[key] = before[key]

\* C34: the node index holds every node of its key mappings in nodeById under
\* the node's id and nothing else there, and no handler removes an entry of a
\* mapping or puts another node in its place.
C34_IndexMappingsAgreeAndGrow ==
    /\ [](/\ \A n \in KeyedNodes(nodeIndex) :
                n.id \in DOMAIN nodeIndex.nodeById /\ nodeIndex.nodeById[n.id] = n
          /\ \A id \in DOMAIN nodeIndex.nodeById :
                nodeIndex.nodeById[id] \in KeyedNodes(nodeIndex))
    /\ [][/\ Kept(nodeIndex.recordsByKey, nodeIndex'.recordsByKey)
          /\ Kept(nodeIndex.documentsByKey, nodeIndex'.documentsByKey)
          /\ Kept(nodeIndex.versionsById, nodeIndex'.versionsById)
          /\ Kept(nodeIndex.nodeById, nodeIndex'.nodeById)]_vars

\* the index holds record, document and version nodes, some of them taken off
\* the visible graph by a collapse
C34_Witness ==
    /\ last.op = "collapse"
    /\ last.outcome = "ok"
    /\ nodeIndex.recordsByKey # EmptyMap
    /\ nodeIndex.documentsByKey # EmptyMap
    /\ nodeIndex.versionsById # EmptyMap
    /\ Cardinality(DOMAIN nodeIndex.nodeById) > Len(nodes)
====
